---- MODULE Spec2Model ----
(***************************************************************************)
(* The intent routing and extraction orchestration pipeline of nuance's    *)
(* backend: IntentClassifier, IntentRouter, CommandHandler,                *)
(* ExtractionService, AvoidanceService, ComplexityService,                 *)
(* ConfidenceService and ExtractionOrchestrator.                           *)
(*                                                                         *)
(* Text is a sequence of symbols.  A symbol is an indivisible piece of a   *)
(* string: the whitespace symbol " " or a run of non-whitespace            *)
(* characters.  Adjacent non-whitespace symbols form one word, as the      *)
(* characters of a Python string do.                                       *)
(* Confidences are integers in thousandths (0.7 is 700).                   *)
(***************************************************************************)
EXTENDS Integers, Sequences, FiniteSets, TLC

\* ------------------------------------------------------------------ bounds

\* Longest text, in symbols, handed to IntentClassifier.classify.
MaxTextLen == 3

\* Most actions one AI extraction returns.
MaxActions == 2

\* Largest max_retries a ClaudeProvider is built with (its default is 3).
MaxRetries == 4

\* Most complete calls made on one provider.
MaxCompletes == 2

\* Most process calls for one key that overlap.
MaxConcurrent == 3

\* ------------------------------------------------------------------- state

VARIABLES
    r_pc,               \* IntentRouter: "idle" | "classify" | "capture" |
                        \*   "coaching" | "done" | "raised"
    request,            \* [entry, text, intent] of the call, None before it
    intent_result,      \* IntentResult of the call, None before classification
    response,           \* the RouterResponse returned, None until then
    calls,              \* invocations so far: classifier, orchestrator,
                        \*   coaching, command, and AI Capability methods (ai)
    e_pc,               \* ExtractionService.extract: "idle" | "ai" |
                        \*   "returned" | "raised"
    o_pc,               \* ExtractionOrchestrator.extract: "idle" | "extract" |
                        \*   "enrich" | "returned" | "raised"
    extraction_result,  \* what ExtractionService.extract returned, or None
    tasks,              \* tasks[i]: the _enrich_single_action task of action i
    finished            \* indices of the enrichment tasks in the order they ended

pvars == <<r_pc, request, intent_result, response, calls, e_pc, o_pc,
           extraction_result, tasks, finished>>

\* State of a call of IntentClassifier.classify made on its own.
VARIABLES
    c_pc,       \* "idle" | "ai" (awaiting self.ai.complete) | "done"
    c_text,     \* the text classify was called with
    c_result,   \* the IntentResult returned, None until then
    c_ai        \* number of AI calls classify made

cvars == <<c_pc, c_text, c_result, c_ai>>

\* State of one CoachingService, of the CommandHandler next to it in the same
\* IntentRouter, and of the caller of their methods.
VARIABLES
    k_conversations,  \* CoachingService._conversations: key -> messages
    k_user_contexts,  \* CommandHandler._user_contexts: the user ids in it
    k_pc,             \* "idle" | "process" | "stream" (the call awaiting the
                      \*   AI) | "raised" (a call raised to its caller)
    k_call,           \* the call in progress or the last one: [op, key,
                      \*   message, history (the messages handed to the AI),
                      \*   full_response], None before the first
    k_out,            \* what that call has returned or yielded so far
    k_n,              \* number of coaching calls made
    k_prev,           \* key -> [message, answered, reply] of the last call
                      \*   ended on the key's conversation of this service
    k_seen,           \* key -> the user messages sent for the key since the
                      \*   process started or the key's conversation was cleared
    k_cleared         \* users whose last message was an answered /clear

kvars == <<k_conversations, k_user_contexts, k_pc, k_call, k_out, k_n, k_prev,
           k_seen, k_cleared>>

\* State of one POST /process/stream request: its event_generator.
VARIABLES
    t_pc,        \* "idle" | "classify" (awaiting the classifier's AI call) |
                 \*   "coaching" (inside `async for` over stream_coaching) |
                 \*   "route_classify" (route awaits its own classification) |
                 \*   "route" (awaiting route / route_with_intent) |
                 \*   "complete" (about to signal completion) | "done" | "error"
    t_request,   \* [text, force_intent] of the request, None before it
    t_intent,    \* the intent determined, None until then
    t_events,    \* the SSE events yielded so far, by name
    t_route,     \* the intent route / route_with_intent handles the request
                 \*   with, None until it is known
    t_result     \* the intent of the RouterResponse in the result event, None
                 \*   while there is none

tvars == <<t_pc, t_request, t_intent, t_events, t_route, t_result>>

\* State of a call of ConfidenceService.score made on its own.
VARIABLES
    q_pc,         \* "idle" | "ai" (awaiting self.ai.extract) | "done" | "raised"
    q_action,     \* the ExtractedAction score was called with
    q_raw_input,  \* the raw input score was called with
    q_result,     \* the ConfidenceAnalysis returned, None until then
    q_ai          \* number of AI calls score made

qvars == <<q_pc, q_action, q_raw_input, q_result, q_ai>>

\* State of the calls of ClaudeProvider.complete made on one provider.
VARIABLES
    a_pc,           \* "idle" | "call" (awaiting client.messages.create) |
                    \*   "sleep" (in asyncio.sleep before the next attempt) |
                    \*   "returned" | "raised"
    a_max_retries,  \* self.max_retries of the provider
    a_attempt,      \* the loop variable `attempt`
    a_calls,        \* API calls made by the complete call so far
    a_slept,        \* the delays slept by the complete call so far
    a_out,          \* the response returned or the error raised, None until then
    a_n             \* complete calls made so far

avars == <<a_pc, a_max_retries, a_attempt, a_calls, a_slept, a_out, a_n>>

\* State of one CoachingService whose process calls for one key overlap.
VARIABLES
    x_objects,  \* the messages of each CoachingConversation object created
    x_entry,    \* the object self._conversations holds for the key, 0 if none
    x_calls     \* per process call: [pc, conversation, history, answered,
                \*   during, cleared]

xvars == <<x_objects, x_entry, x_calls>>

vars == <<pvars, cvars, kvars, tvars, qvars, avars, xvars>>

\* The variables each component leaves alone.
NotPipeline == <<cvars, kvars, tvars, qvars, avars, xvars>>
NotClassifier == <<pvars, kvars, tvars, qvars, avars, xvars>>
NotCoaching == <<pvars, cvars, tvars, qvars, avars, xvars>>
NotStream == <<pvars, cvars, kvars, qvars, avars, xvars>>
NotScore == <<pvars, cvars, kvars, tvars, avars, xvars>>
NotProvider == <<pvars, cvars, kvars, tvars, qvars, xvars>>
NotConcurrent == <<pvars, cvars, kvars, tvars, qvars, avars>>

\* ------------------------------------------------------------- text helpers

\* Python's None, and the markers of a call that is in flight, has raised, or
\* whose result nobody reads.
None == [kind |-> "None"]
Running == [kind |-> "running"]
Raised == [kind |-> "raised"]
Finished == [kind |-> "finished"]

Range(s) == {s[i] : i \in 1..Len(s)}

\* All sequences over S of length 0..n.
SeqsUpTo(S, n) == UNION {[1..k -> S] : k \in 0..n}

\* str.lower on one symbol.
Lower(c) ==
    CASE c = "Buy" -> "buy"
      [] c = "/HELP" -> "/help"
      [] c = "Add:" -> "add:"
      [] c = "Stuck" -> "stuck"
      [] OTHER -> c

\* str.lower
LowerText(t) == [i \in 1..Len(t) |-> Lower(t[i])]

IsSpace(c) == c = " "

RECURSIVE LStrip(_)
LStrip(t) ==
    IF t = <<>> THEN t
    ELSE IF IsSpace(Head(t)) THEN LStrip(Tail(t)) ELSE t

RECURSIVE RStrip(_)
RStrip(t) ==
    IF t = <<>> THEN t
    ELSE IF IsSpace(t[Len(t)]) THEN RStrip(SubSeq(t, 1, Len(t) - 1)) ELSE t

\* str.strip
Strip(t) == RStrip(LStrip(t))

\* Mutant: only the empty string counts as empty.
IsBlankNoStrip(t) == t = <<>>

\* `not text or not text.strip()`
IsBlank(t) == t = <<>> \/ Strip(t) = <<>>

\* The first word of t (t.split()[0]); <<>> when split() is empty.
RECURSIVE WordPrefix(_)
WordPrefix(t) ==
    IF t = <<>> \/ IsSpace(Head(t)) THEN <<>>
    ELSE <<Head(t)>> \o WordPrefix(Tail(t))

FirstWord(t) == WordPrefix(LStrip(t))

\* str.startswith
StartsWith(t, p) == Len(t) >= Len(p) /\ SubSeq(t, 1, Len(p)) = p

\* `p in t` for strings
Contains(t, p) ==
    \E i \in 1..(Len(t) + 1) :
        i + Len(p) - 1 <= Len(t) /\ SubSeq(t, i, i + Len(p) - 1) = p

\* Symbols whose first character is "/".
SlashSymbols == {"/", "/start", "/help", "/clear", "/status", "/zzz", "/HELP"}

\* text_stripped.startswith("/")
StartsWithSlash(t) == t # <<>> /\ Head(t) \in SlashSymbols

\* ---------------------------------------------------------- IntentClassifier

CAPTURE == "capture"
COACHING == "coaching"
COMMAND == "command"

Intent == {CAPTURE, COACHING, COMMAND}

\* Intent[intent_str]: the enum member of that (upper-cased) name, or
\* "KeyError" where Python raises it.
IntentByName(name) ==
    CASE name = "CAPTURE" -> CAPTURE
      [] name = "COACHING" -> COACHING
      [] name = "COMMAND" -> COMMAND
      [] OTHER -> "KeyError"

\* response.content.strip().upper() of the replies the model draws from.
UpperStripped(content) ==
    CASE content = "capture" -> "CAPTURE"
      [] content = " coaching\n" -> "COACHING"
      [] content = "Command" -> "COMMAND"
      [] content = "clarify" -> "CLARIFY"
      [] content = "I think: capture" -> "I THINK: CAPTURE"
      [] OTHER -> content

_ACTION_STARTERS ==
    {"buy", "call", "send", "email", "write", "do", "finish", "complete",
     "submit", "schedule", "book", "order", "pick", "get", "make", "create",
     "fix", "update", "review", "prepare", "clean", "organize", "pay",
     "cancel", "renew", "return", "check", "reply", "respond", "follow"}

_COACHING_SIGNALS ==
    {<<"can't">>, <<"cannot">>, <<"stuck">>, <<"overwhelmed">>, <<"anxious">>,
     <<"scared">>, <<"don't", " ", "know">>, <<"frustrated">>, <<"confused">>,
     <<"lost">>, <<"paralyzed">>, <<"procrastinating">>, <<"avoiding">>,
     <<"dreading">>, <<"hate">>, <<"impossible">>, <<"too", " ", "much">>,
     <<"too", " ", "hard">>, <<"help", " ", "me">>,
     <<"what", " ", "do", " ", "i", " ", "do">>,
     <<"why", " ", "can't", " ", "i">>}

CapturePrefixes == {<<"add:">>, <<"add", " ">>, <<"todo:">>, <<"task:">>}

IntentResult(intent, confidence) == [intent |-> intent, confidence |-> confidence]

\* first_word in _ACTION_STARTERS
StartsWithActionVerb(text_lower) ==
    LET first_word == FirstWord(text_lower)
    IN  Len(first_word) = 1 /\ first_word[1] \in _ACTION_STARTERS

HasCapturePrefix(text_lower) == \E p \in CapturePrefixes : StartsWith(text_lower, p)

HasCoachingSignal(text_lower) == \E s \in _COACHING_SIGNALS : Contains(text_lower, s)

\* Mutant: the coaching signals are looked for before the capture fast paths.
ClassifyHeuristicCoachingFirst(text) ==
    LET text_stripped == Strip(text)
        text_lower == LowerText(text_stripped)
    IN  IF StartsWithSlash(text_stripped) THEN IntentResult(COMMAND, 1000)
        ELSE IF HasCoachingSignal(text_lower) THEN IntentResult(COACHING, 900)
        ELSE IF StartsWithActionVerb(text_lower) THEN IntentResult(CAPTURE, 950)
        ELSE IF HasCapturePrefix(text_lower) THEN IntentResult(CAPTURE, 980)
        ELSE None

\* The heuristic part of IntentClassifier.classify: the IntentResult of the
\* first fast path that matches, or None when the text goes to _ai_classify.
ClassifyHeuristic(text) ==
    LET text_stripped == Strip(text)
        text_lower == LowerText(text_stripped)
    IN  IF StartsWithSlash(text_stripped) THEN IntentResult(COMMAND, 1000)
        ELSE IF StartsWithActionVerb(text_lower) THEN IntentResult(CAPTURE, 950)
        ELSE IF HasCapturePrefix(text_lower) THEN IntentResult(CAPTURE, 980)
        ELSE IF HasCoachingSignal(text_lower) THEN IntentResult(COACHING, 900)
        ELSE None

\* What self.ai.complete can do in _ai_classify: reply with a text, or raise.
AIRaised == "raised"
IntentReplies == {"capture", " coaching\n", "Command", "clarify", "I think: capture", ""}
IntentOutcomes == IntentReplies \cup {AIRaised}

\* IntentClassifier._ai_classify, given the outcome of the AI call.
AIClassifyResult(outcome) ==
    IF outcome = AIRaised THEN IntentResult(CAPTURE, 500)
    ELSE LET intent_str == UpperStripped(outcome)
             parsed == IntentByName(intent_str)
             intent == IF parsed = "KeyError" THEN CAPTURE ELSE parsed
         IN  IntentResult(intent, 850)

\* --------------------------------------------------- outcomes of an AI call

\* self.ai.extract / self.ai.complete either returns a value that passed the
\* schema, raises ValueError (malformed output, ClaudeProvider.extract), or
\* raises the provider's APIError / RateLimitError out of
\* ClaudeProvider.complete, which is no ValueError.
Ok(value) == [kind |-> "ok", value |-> value]
ValueError == [kind |-> "ValueError"]
ProviderError == [kind |-> "ProviderError"]

\* ------------------------------------------------------- ExtractionService

ExtractedAction(title, estimated_minutes, raw_segment) ==
    [title |-> title, estimated_minutes |-> estimated_minutes,
     raw_segment |-> raw_segment]

ExtractionResult(actions, confidence, ambiguities) ==
    [actions |-> actions, confidence |-> confidence, ambiguities |-> ambiguities]

\* ExtractionService.extract on empty text: no AI call.
ExtractionEmptyInput == ExtractionResult(<<>>, 0, {"No input provided"})

\* ExtractionService.extract after its AI call: the result it returns, or
\* Raised when the exception of the call is not caught by `except ValueError`.
ExtractionAfterAI(outcome) ==
    CASE outcome.kind = "ok" -> outcome.value
      [] outcome.kind = "ValueError" ->
            ExtractionResult(<<>>, 0, {"Failed to parse response"})
      [] OTHER -> Raised

\* -------------------------------------------------------- AvoidanceService

AvoidanceAnalysis(weight) == [weight |-> weight]

\* AvoidanceService.detect after its AI call.
AvoidanceAfterAI(outcome) ==
    CASE outcome.kind = "ok" -> outcome.value
      [] outcome.kind = "ValueError" -> AvoidanceAnalysis(1)
      [] OTHER -> Raised

\* ------------------------------------------------------- ComplexityService

ATOMIC == "atomic"
COMPOSITE == "composite"
PROJECT == "project"

ActionComplexity == {ATOMIC, COMPOSITE, PROJECT}

\* suggested_steps and reasoning, which nothing in the pipeline reads, are
\* left out, as are signals and reasoning of the other analyses.
ComplexityAnalysis(complexity, needs_breakdown) ==
    [complexity |-> complexity, needs_breakdown |-> needs_breakdown]

\* The fast path of ComplexityService.classify.
ComplexityFastPath(estimated_minutes) == estimated_minutes <= 20

ComplexityFastResult == ComplexityAnalysis(ATOMIC, FALSE)

\* Mutant: the AI's needs_breakdown is returned as it came.
SetNeedsBreakdownSkipped(result) == result

\* `if result.complexity != ATOMIC and not result.needs_breakdown:
\*      result.needs_breakdown = True`
SetNeedsBreakdown(result) ==
    IF result.complexity # ATOMIC /\ ~result.needs_breakdown
    THEN [result EXCEPT !.needs_breakdown = TRUE]
    ELSE result

\* Mutant: the failure default turns COMPOSITE above 30 minutes.
ComplexityDefaultAboveThirty(estimated_minutes) ==
    ComplexityAnalysis(IF estimated_minutes > 30 THEN COMPOSITE ELSE ATOMIC,
                       estimated_minutes > 30)

\* The default of ComplexityService.classify when the AI call raised ValueError.
ComplexityDefault(estimated_minutes) ==
    ComplexityAnalysis(IF estimated_minutes > 60 THEN COMPOSITE ELSE ATOMIC,
                       estimated_minutes > 60)

\* ComplexityService.classify after its AI call.
ComplexityAfterAI(outcome, estimated_minutes) ==
    CASE outcome.kind = "ok" -> SetNeedsBreakdown(outcome.value)
      [] outcome.kind = "ValueError" -> ComplexityDefault(estimated_minutes)
      [] OTHER -> Raised

\* ------------------------------------------------------- ConfidenceService

_STRONG_ACTION_VERBS ==
    {"buy", "call", "send", "email", "write", "submit", "schedule",
     "book", "order", "pay", "cancel", "return", "pick", "get",
     "create", "fix", "update", "review", "clean", "organize"}

_VAGUE_PATTERNS ==
    {<<"that", " ", "thing">>, <<"stuff">>, <<"whatever">>, <<"something">>,
     <<"somehow">>, <<"the", " ", "thing">>, <<"that", " ", "project">>,
     <<"those", " ", "things">>, <<"misc">>}

\* Characters in one symbol.
CharLen(c) ==
    CASE c \in {" ", "?", "/"} -> 1
      [] c \in {"buy", "Buy", "add"} -> 3
      [] c \in {"call", "plan", "milk", "trip", "add:", "/zzz"} -> 4
      [] c \in {"stuff", "stuck", "Stuck", "/help", "/HELP"} -> 5
      [] OTHER -> 6

\* len(title)
RECURSIVE StrLen(_)
StrLen(t) == IF t = <<>> THEN 0 ELSE CharLen(Head(t)) + StrLen(Tail(t))

ConfidenceAnalysis(confidence, ambiguities) ==
    [confidence |-> confidence, ambiguities |-> ambiguities]

Max(a, b) == IF a >= b THEN a ELSE b
Min(a, b) == IF a <= b THEN a ELSE b

\* title_lower.split()[0] raises IndexError on a title of whitespace alone.
ScoreRaisesIndexError(action) ==
    action.title # <<>> /\ FirstWord(LowerText(action.title)) = <<>>

has_action_verb(action) ==
    LET first_word == FirstWord(LowerText(action.title))
    IN  Len(first_word) = 1 /\ first_word[1] \in _STRONG_ACTION_VERBS

has_vague_pattern(raw_input) ==
    \E pattern \in _VAGUE_PATTERNS : Contains(LowerText(raw_input), pattern)

HasQuestionMark(raw_input) == "?" \in Range(raw_input)

TimeOutOfRange(action) ==
    action.estimated_minutes < 5 \/ action.estimated_minutes > 240

\* The ambiguities list ConfidenceService.score builds (as a set: the order
\* of the list is not modelled).
HeuristicAmbiguities(action, raw_input) ==
    (IF has_vague_pattern(raw_input) THEN {"Input contains vague language"} ELSE {})
    \cup (IF StrLen(action.title) < 5 THEN {"Task title is very short"} ELSE {})
    \cup (IF HasQuestionMark(raw_input)
          THEN {"Input contains question - may not be a task"} ELSE {})
    \cup (IF TimeOutOfRange(action) THEN {"Time estimate may need adjustment"} ELSE {})

\* base_confidence after every adjustment, clamped to [0, 1].
HeuristicConfidence(action, raw_input) ==
    LET base_confidence ==
            800
            + (IF has_action_verb(action) THEN 100 ELSE 0)
            - (IF has_vague_pattern(raw_input) THEN 300 ELSE 0)
            - (IF StrLen(action.title) < 5 THEN 100 ELSE 0)
            - (IF HasQuestionMark(raw_input) THEN 150 ELSE 0)
            - (IF TimeOutOfRange(action) THEN 100 ELSE 0)
    IN  Max(0, Min(1000, base_confidence))

\* `if confidence < 0.6 and not has_vague_pattern`
Escalates(action, raw_input) ==
    HeuristicConfidence(action, raw_input) < 600 /\ ~has_vague_pattern(raw_input)

\* What score returns without an AI call.
ScoreHeuristic(action, raw_input) ==
    ConfidenceAnalysis(HeuristicConfidence(action, raw_input),
                       HeuristicAmbiguities(action, raw_input))

\* ConfidenceService._ai_score after its AI call.
ConfidenceAfterAI(outcome, existing_ambiguities) ==
    CASE outcome.kind = "ok" ->
            ConfidenceAnalysis(outcome.value.confidence,
                               existing_ambiguities \cup outcome.value.ambiguities)
      [] outcome.kind = "ValueError" ->
            ConfidenceAnalysis(500, existing_ambiguities \cup {"AI analysis unavailable"})
      [] OTHER -> Raised

\* -------------------------------------------------- ExtractionOrchestrator

EnrichedAction(title, estimated_minutes, raw_segment, avoidance_weight, complexity, needs_breakdown, confidence, ambiguities) ==
    [title |-> title, estimated_minutes |-> estimated_minutes,
     raw_segment |-> raw_segment, avoidance_weight |-> avoidance_weight,
     complexity |-> complexity, needs_breakdown |-> needs_breakdown,
     confidence |-> confidence, ambiguities |-> ambiguities]

OrchestrationResult(actions, raw_input, overall_confidence, needs_validation) ==
    [actions |-> actions, raw_input |-> raw_input,
     overall_confidence |-> overall_confidence,
     needs_validation |-> needs_validation]

\* The EnrichedAction _enrich_single_action returns.
EnrichedFrom(action, avoidance_result, complexity_result, confidence_result) ==
    EnrichedAction(action.title, action.estimated_minutes, action.raw_segment,
                   avoidance_result.weight, complexity_result.complexity,
                   complexity_result.needs_breakdown,
                   confidence_result.confidence, confidence_result.ambiguities)

\* Mutant: the failed action is built from the field defaults of EnrichedAction.
MinimalEnrichedDefaults(action) ==
    EnrichedAction(action.title, action.estimated_minutes, action.raw_segment,
                   1, ATOMIC, FALSE, 800, {})

\* The minimal EnrichedAction _enrich_actions creates for a failed enrichment.
MinimalEnriched(action) ==
    EnrichedAction(action.title, action.estimated_minutes, action.raw_segment,
                   1, ATOMIC, FALSE, 500, {"Enrichment failed"})

\* Mutant: the enriched actions are appended as their tasks end.
CollectEnrichedAsCompleted(actions, results) ==
    [k \in 1..Len(results) |->
        LET i == finished[k]
        IN  IF results[i] = Raised THEN MinimalEnriched(actions[i]) ELSE results[i]]

\* The loop of _enrich_actions over the results of gather(...,
\* return_exceptions=True): results[i] is the outcome of the i-th task.
CollectEnriched(actions, results) ==
    [i \in 1..Len(results) |->
        IF results[i] = Raised THEN MinimalEnriched(actions[i]) ELSE results[i]]

RECURSIVE SumConfidence(_)
SumConfidence(enriched) ==
    IF enriched = <<>> THEN 0
    ELSE Head(enriched).confidence + SumConfidence(Tail(enriched))

\* `avg_confidence < 0.7` for avg_confidence = total / n
AvgBelowThreshold(total, n) == total < 700 * n

\* Mutant: needs_validation looks at the mean alone.
NeedsValidationMeanOnly(enriched) ==
    AvgBelowThreshold(SumConfidence(enriched), Len(enriched))

\* needs_validation of the enriched path.
NeedsValidation(enriched) ==
    \/ AvgBelowThreshold(SumConfidence(enriched), Len(enriched))
    \/ \E i \in 1..Len(enriched) : enriched[i].ambiguities # {}

\* round(total / n, 2): the multiples of 0.01 nearest to the mean.  On an
\* exact tie the binary value of the float decides, so both neighbours are
\* possible results.
Round2(total, n) ==
    {r \in {10 * k : k \in 0..100} : 2 * n * r - 2 * total \in (-10 * n)..(10 * n)}

\* Mutant: the zero-actions path leaves needs_validation at its default.
ZeroActionsResultNoValidation(text, extracted) ==
    OrchestrationResult(<<>>, text, extracted.confidence, FALSE)

\* OrchestrationResult of the path that skips enrichment.
ZeroActionsResult(text, extracted) ==
    OrchestrationResult(<<>>, text, extracted.confidence,
                        extracted.confidence < 700)

\* OrchestrationResult of the empty-input path of extract.
OrchestratorEmptyResult(text) == OrchestrationResult(<<>>, text, 0, TRUE)

\* The OrchestrationResults extract can return for these enriched actions.
EnrichedResults(text, enriched) ==
    {OrchestrationResult(enriched, text, overall, NeedsValidation(enriched)) :
        overall \in Round2(SumConfidence(enriched), Len(enriched))}

\* ------------------------------------------------------------ CommandHandler

CommandResponse(command, message) == [command |-> command, message |-> message]

KnownCommands == {<<"/start">>, <<"/help">>, <<"/clear">>, <<"/status">>}

\* text.strip().split(maxsplit=1) is empty: parts[0] raises IndexError.
CommandRaisesIndexError(text) == FirstWord(Strip(text)) = <<>>

\* CommandHandler.process on a text with a first token.
CommandProcess(text) ==
    LET command == LowerText(FirstWord(Strip(text)))
    IN  IF command \in KnownCommands
        THEN CommandResponse(command, <<"handled">>)
        ELSE CommandResponse(command, <<"Unknown command: ">> \o command)

\* --------------------------------------------------------------- IntentRouter

RouterResponse(intent, intent_confidence, response_type, extraction, coaching_response, command_response) ==
    [intent |-> intent, intent_confidence |-> intent_confidence,
     response_type |-> response_type, extraction |-> extraction,
     coaching_response |-> coaching_response,
     command_response |-> command_response]

\* The response of route() to empty text.
EmptyMessageResponse ==
    RouterResponse(CAPTURE, 0, "capture",
                   OrchestrationResult(<<>>, <<>>, 0, TRUE), None, None)

CaptureResponse(ir, result) ==
    RouterResponse(CAPTURE, ir.confidence, "capture",
                   result, None, None)

\* Mutant: the coaching response is labelled like a capture response.
CoachingResponseMislabelled(ir, reply) ==
    RouterResponse(COACHING, ir.confidence, "capture",
                   None, reply, None)

CoachingResponse(ir, reply) ==
    RouterResponse(COACHING, ir.confidence, "coaching",
                   None, reply, None)

CommandRouterResponse(ir, reply) ==
    RouterResponse(COMMAND, ir.confidence, "command",
                   None, None, reply)

\* CoachingService._get_fallback_response
FallbackResponse == [content |-> "I hear you - this sounds really challenging."]

\* ----------------------------------------------- the request pipeline: inputs

\* Texts a request carries.
PipelineTexts ==
    {<<>>, <<" ">>, <<"/help">>, <<"/zzz", " ", "milk">>,
     <<"buy", " ", "milk">>, <<"Stuck">>,
     <<"milk", "?">>}

\* ExtractedActions the AI extraction draws from (5 <= minutes <= 480).
ActionPool ==
    {ExtractedAction(<<"buy", " ", "milk">>, 15, <<"buy", " ", "milk">>),
     ExtractedAction(<<"plan", " ", "trip">>, 45, <<"trip">>),
     ExtractedAction(<<"call">>, 300, <<"call">>)}

ExtractionConfidences == {300, 900}

\* The action lists an extraction returns: up to MaxActions actions, no
\* action twice.
ExtractedLists ==
    {l \in SeqsUpTo(ActionPool, MaxActions) :
        \A i, j \in 1..Len(l) : l[i] = l[j] => i = j}

\* Outcomes of the AI call of ExtractionService.extract.
ExtractOutcomes ==
    {Ok(ExtractionResult(actions, confidence, {})) :
        actions \in ExtractedLists,
        confidence \in ExtractionConfidences}
    \cup {ValueError, ProviderError}

\* Outcomes of the AI call of AvoidanceService.detect (1 <= weight <= 5).
AvoidanceOutcomes == {Ok(AvoidanceAnalysis(4)), ValueError, ProviderError}

\* Outcomes of the AI call of ComplexityService.classify.
ComplexityOutcomes ==
    {Ok(ComplexityAnalysis(ATOMIC, FALSE)),
     Ok(ComplexityAnalysis(COMPOSITE, FALSE)),
     ValueError, ProviderError}

\* Outcomes of the AI call of ConfidenceService._ai_score.
ConfidenceOutcomes ==
    {Ok(ConfidenceAnalysis(695, {})),
     Ok(ConfidenceAnalysis(950, {"Object of the task is unclear"})),
     ValueError, ProviderError}

\* Outcomes of the AI call of CoachingService.process.
CoachingOutcomes == {"That sounds hard.", AIRaised}

NoCalls == [classifier |-> 0, orchestrator |-> 0, coaching |-> 0,
            command |-> 0, ai |-> 0]

Called(c, who) == [c EXCEPT ![who] = @ + 1]

PInit ==
    /\ r_pc = "idle"
    /\ request = None
    /\ intent_result = None
    /\ response = None
    /\ calls = NoCalls
    /\ e_pc = "idle"
    /\ o_pc = "idle"
    /\ extraction_result = None
    /\ tasks = <<>>
    /\ finished = <<>>

\* -------------------------------------------- the request pipeline: dispatch

\* _handle_capture up to its return or to the await in ExtractionService:
\* ExtractionOrchestrator.extract returns at once on empty text.
HandleCapture(text, ir, c) ==
    IF IsBlank(text)
    THEN /\ r_pc' = "done"
         /\ response' = CaptureResponse(ir, OrchestratorEmptyResult(text))
         /\ calls' = Called(c, "orchestrator")
         /\ o_pc' = "returned"
         /\ e_pc' = e_pc
    ELSE /\ r_pc' = "capture"
         /\ response' = response
         /\ calls' = Called(Called(c, "orchestrator"), "ai")
         /\ o_pc' = "extract"
         /\ e_pc' = "ai"

\* _handle_coaching up to the await in CoachingService.process.
HandleCoaching(text, ir, c) ==
    /\ r_pc' = "coaching"
    /\ response' = response
    /\ calls' = Called(Called(c, "coaching"), "ai")
    /\ UNCHANGED <<o_pc, e_pc>>

\* _handle_command: CommandHandler.process never awaits the AI.
HandleCommand(text, ir, c) ==
    /\ calls' = Called(c, "command")
    /\ IF CommandRaisesIndexError(text)
       THEN r_pc' = "raised" /\ response' = response
       ELSE /\ r_pc' = "done"
            /\ response' = CommandRouterResponse(ir, CommandProcess(text))
    /\ UNCHANGED <<o_pc, e_pc>>

\* The `match` of route and of route_with_intent.
Dispatch(text, ir, c) ==
    /\ intent_result' = ir
    /\ CASE ir.intent = CAPTURE -> HandleCapture(text, ir, c)
         [] ir.intent = COACHING -> HandleCoaching(text, ir, c)
         [] ir.intent = COMMAND -> HandleCommand(text, ir, c)
         [] OTHER -> HandleCapture(text, ir, c)
    /\ UNCHANGED <<extraction_result, tasks, finished>>

\* --------------------------------------------- the request pipeline: actions

\* IntentRouter.route(text, ...) up to its return or its first await.
Route(text) ==
    /\ UNCHANGED NotPipeline
    /\ r_pc = "idle"
    /\ request' = [entry |-> "route", text |-> text, intent |-> ""]
    /\ IF IsBlank(text)
       THEN /\ r_pc' = "done"
            /\ response' = EmptyMessageResponse
            /\ UNCHANGED <<intent_result, calls, e_pc, o_pc, extraction_result,
                           tasks, finished>>
       ELSE LET h == ClassifyHeuristic(text)
                c == Called(calls, "classifier")
            IN  IF h # None
                THEN Dispatch(text, h, c)
                ELSE /\ r_pc' = "classify"
                     /\ calls' = Called(c, "ai")
                     /\ UNCHANGED <<intent_result, response, e_pc, o_pc,
                                    extraction_result, tasks, finished>>

\* The AI call of IntentClassifier._ai_classify returns or raises, and route
\* goes on to its handler.
ClassifyReturn(outcome) ==
    /\ UNCHANGED NotPipeline
    /\ r_pc = "classify"
    /\ Dispatch(request.text, AIClassifyResult(outcome), calls)
    /\ UNCHANGED request

\* IntentRouter.route_with_intent(text, intent, ...) up to its return or its
\* first await.
RouteWithIntent(text, intent) ==
    /\ UNCHANGED NotPipeline
    /\ r_pc = "idle"
    /\ request' = [entry |-> "route_with_intent", text |-> text, intent |-> intent]
    /\ Dispatch(text, IntentResult(intent, 1000), calls)

\* The AI call of CoachingService.process returns or raises.
CoachingReturn(outcome) ==
    /\ UNCHANGED NotPipeline
    /\ r_pc = "coaching"
    /\ r_pc' = "done"
    /\ response' = CoachingResponse(intent_result,
                       IF outcome = AIRaised THEN FallbackResponse
                       ELSE [content |-> outcome])
    /\ UNCHANGED <<request, intent_result, calls, e_pc, o_pc,
                   extraction_result, tasks, finished>>

\* A result that no code reads any more.
Unread(x) == IF x \in {Running, Raised, None} THEN x ELSE Finished

\* Task t fails: its exception is the task's result, and the results its
\* calls had returned are dropped with its frame.
Fail(t) ==
    [t EXCEPT !.pc = "failed", !.result = Raised,
              !.avoidance = Unread(@), !.complexity = Unread(@),
              !.confidence = Unread(@)]

\* A task of _enrich_single_action after gather(avoidance, complexity) gave
\* both results: ConfidenceService.score up to its return or its await.
TaskAfterGather(t, action, raw_input) ==
    IF ScoreRaisesIndexError(action)
    THEN Fail([t EXCEPT !.confidence = Raised])
    ELSE IF Escalates(action, raw_input)
    THEN [t EXCEPT !.pc = "confidence", !.confidence = Running]
    ELSE LET c == ScoreHeuristic(action, raw_input)
         IN  [t EXCEPT !.pc = "done", !.confidence = c,
                       !.result = EnrichedFrom(action, t.avoidance, t.complexity, c)]

\* The task created for one action if the complexity call were started only
\* after the avoidance call had been awaited.
NewTaskAvoidanceFirst(action) ==
    [pc |-> "gather", avoidance |-> Running, complexity |-> None,
     confidence |-> None, result |-> None]

\* The task created for one action: the avoidance call is in flight, the
\* complexity call too unless classify took its fast path.
NewTask(action) ==
    [pc |-> "gather",
     avoidance |-> Running,
     complexity |-> IF ComplexityFastPath(action.estimated_minutes)
                    THEN ComplexityFastResult ELSE Running,
     confidence |-> None,
     result |-> None]

\* AI calls in flight on behalf of task t.
InFlight(t) ==
    (IF t.avoidance = Running THEN 1 ELSE 0)
    + (IF t.complexity = Running THEN 1 ELSE 0)
    + (IF t.confidence = Running THEN 1 ELSE 0)

RECURSIVE TotalInFlight(_)
TotalInFlight(ts) ==
    IF ts = <<>> THEN 0 ELSE InFlight(Head(ts)) + TotalInFlight(Tail(ts))

\* An enrichment task counted as ended only when it returned a result.
EndedOnlyDone(t) == t.pc = "done"

Ended(t) == t.pc \in {"done", "failed"}

\* The AI call of ExtractionService.extract returns or raises; the
\* orchestrator returns, raises, or starts one enrichment task per action.
ExtractReturn(outcome) ==
    /\ UNCHANGED NotPipeline
    /\ o_pc = "extract"
    /\ LET r == ExtractionAfterAI(outcome)
       IN  IF r = Raised
           THEN /\ e_pc' = "raised"
                /\ o_pc' = "raised"
                /\ r_pc' = "raised"
                /\ UNCHANGED <<response, calls, extraction_result, tasks>>
           ELSE /\ e_pc' = "returned"
                /\ extraction_result' = r
                /\ IF r.actions = <<>>
                   THEN /\ o_pc' = "returned"
                        /\ r_pc' = "done"
                        /\ response' = CaptureResponse(intent_result,
                                           ZeroActionsResult(request.text, r))
                        /\ UNCHANGED <<calls, tasks>>
                   ELSE /\ o_pc' = "enrich"
                        /\ tasks' = [i \in 1..Len(r.actions) |-> NewTask(r.actions[i])]
                        /\ calls' = [calls EXCEPT !.ai = @ + TotalInFlight(tasks')]
                        /\ UNCHANGED <<r_pc, response>>
    /\ UNCHANGED <<request, intent_result, finished>>

\* Task t with one of the two gathered calls ended with `result`, which is
\* put in field `mine`; `other` is the other call's field.  gather() without
\* return_exceptions raises the first exception to the task at once and
\* leaves the other call running.
GatherStep(t, action, raw_input, mine, other, result) ==
    IF t.pc # "gather"
    THEN [t EXCEPT ![mine] = Finished]
    ELSE IF result = Raised
    THEN Fail([t EXCEPT ![mine] = Raised])
    ELSE IF t[other] = Running
    THEN [t EXCEPT ![mine] = result]
    ELSE TaskAfterGather([t EXCEPT ![mine] = result], action, raw_input)

\* The bookkeeping shared by the three completions of task i.
TaskStep(i, t) ==
    /\ tasks' = [tasks EXCEPT ![i] = t]
    /\ finished' = IF Ended(t) /\ ~Ended(tasks[i]) THEN Append(finished, i)
                   ELSE finished
    /\ calls' = IF t.confidence = Running /\ tasks[i].confidence # Running
                THEN Called(calls, "ai") ELSE calls
    /\ UNCHANGED <<r_pc, request, intent_result, response, e_pc, o_pc,
                   extraction_result>>

\* The AI call of AvoidanceService.detect for action i returns or raises.
AvoidanceReturn(i, outcome) ==
    /\ UNCHANGED NotPipeline
    /\ o_pc = "enrich"
    /\ i \in 1..Len(tasks)
    /\ tasks[i].avoidance = Running
    /\ TaskStep(i, GatherStep(tasks[i], extraction_result.actions[i], request.text,
                              "avoidance", "complexity", AvoidanceAfterAI(outcome)))

\* The AI call of ComplexityService.classify for action i returns or raises.
ComplexityReturn(i, outcome) ==
    /\ UNCHANGED NotPipeline
    /\ o_pc = "enrich"
    /\ i \in 1..Len(tasks)
    /\ tasks[i].complexity = Running
    /\ TaskStep(i, GatherStep(tasks[i], extraction_result.actions[i], request.text,
                              "complexity", "avoidance",
                              ComplexityAfterAI(outcome,
                                  extraction_result.actions[i].estimated_minutes)))

\* The AI call of ConfidenceService._ai_score for action i returns or raises.
ConfidenceReturn(i, outcome) ==
    /\ UNCHANGED NotPipeline
    /\ o_pc = "enrich"
    /\ i \in 1..Len(tasks)
    /\ tasks[i].confidence = Running
    /\ LET t == tasks[i]
           action == extraction_result.actions[i]
           c == ConfidenceAfterAI(outcome, HeuristicAmbiguities(action, request.text))
       IN  TaskStep(i,
               IF c = Raised
               THEN Fail([t EXCEPT !.confidence = Raised])
               ELSE [t EXCEPT !.pc = "done", !.confidence = c,
                              !.result = EnrichedFrom(action, t.avoidance,
                                                      t.complexity, c)])

\* results of `await asyncio.gather(*enrichment_tasks, return_exceptions=True)`
GatherResults(ts) == [i \in 1..Len(ts) |-> ts[i].result]

\* Every enrichment task has ended: gather returns, _enrich_actions collects,
\* extract computes the aggregate and returns, and _handle_capture returns.
EnrichReturn ==
    /\ UNCHANGED NotPipeline
    /\ o_pc = "enrich"
    /\ \A i \in 1..Len(tasks) : Ended(tasks[i])
    /\ LET enriched == CollectEnriched(extraction_result.actions, GatherResults(tasks))
       IN  \E result \in EnrichedResults(request.text, enriched) :
               response' = CaptureResponse(intent_result, result)
    /\ o_pc' = "returned"
    /\ r_pc' = "done"
    /\ UNCHANGED <<request, intent_result, calls, e_pc, extraction_result,
                   tasks, finished>>

\* An AI call whose task has already failed returns or raises after extract
\* has returned; nobody reads its result.
OrphanReturn(i) ==
    /\ UNCHANGED NotPipeline
    /\ o_pc = "returned"
    /\ i \in 1..Len(tasks)
    /\ \/ /\ tasks[i].avoidance = Running
          /\ tasks' = [tasks EXCEPT ![i].avoidance = Finished]
       \/ /\ tasks[i].complexity = Running
          /\ tasks' = [tasks EXCEPT ![i].complexity = Finished]
    /\ UNCHANGED <<r_pc, request, intent_result, response, calls, e_pc, o_pc,
                   extraction_result, finished>>

Next ==
    \/ \E text \in PipelineTexts : Route(text)
    \/ \E outcome \in IntentOutcomes : ClassifyReturn(outcome)
    \/ \E text \in PipelineTexts, intent \in Intent : RouteWithIntent(text, intent)
    \/ \E outcome \in CoachingOutcomes : CoachingReturn(outcome)
    \/ \E outcome \in ExtractOutcomes : ExtractReturn(outcome)
    \/ \E i \in 1..MaxActions, outcome \in AvoidanceOutcomes : AvoidanceReturn(i, outcome)
    \/ \E i \in 1..MaxActions, outcome \in ComplexityOutcomes : ComplexityReturn(i, outcome)
    \/ \E i \in 1..MaxActions, outcome \in ConfidenceOutcomes : ConfidenceReturn(i, outcome)
    \/ EnrichReturn
    \/ \E i \in 1..MaxActions : OrphanReturn(i)

\* The outcomes of an AI call that the service hands on to its caller as a
\* result (a ValueError becomes the service's default).
Returning(outcomes) == outcomes \ {ProviderError}

\* A step of extract after its start: an AI call in flight raises or returns,
\* or the event loop resumes extract once every enrichment task has ended.
ExtractProgress ==
    \/ \E outcome \in ExtractOutcomes : ExtractReturn(outcome)
    \/ \E i \in 1..MaxActions : AvoidanceReturn(i, ProviderError)
    \/ \E i \in 1..MaxActions : ComplexityReturn(i, ProviderError)
    \/ \E i \in 1..MaxActions : ConfidenceReturn(i, ProviderError)
    \/ \E i \in 1..MaxActions, outcome \in Returning(AvoidanceOutcomes) :
           AvoidanceReturn(i, outcome)
    \/ \E i \in 1..MaxActions, outcome \in Returning(ComplexityOutcomes) :
           ComplexityReturn(i, outcome)
    \/ \E i \in 1..MaxActions, outcome \in Returning(ConfidenceOutcomes) :
           ConfidenceReturn(i, outcome)
    \/ EnrichReturn

\* Texts extract is followed to its end on: a blank one, one whose actions
\* are scored by the heuristic alone, and one whose actions escalate to the AI.
ExtractTexts == {<<" ">>, <<"buy", " ", "milk">>, <<"milk", "?">>}

\* extract called by _handle_capture for a pre-classified CAPTURE request, with
\* the calls it leaves behind.
NextExtract ==
    \/ \E text \in ExtractTexts : RouteWithIntent(text, CAPTURE)
    \/ ExtractProgress
    \/ \E i \in 1..MaxActions : OrphanReturn(i)

\* ------------------------------------------- specification of classify alone

ClassifyAlphabet == {" ", "/help", "buy", "Buy", "add", "add:", "stuck", "milk"}

ClassifyTexts == {t \in SeqsUpTo(ClassifyAlphabet, MaxTextLen) : ~IsBlank(t)}

CInit ==
    /\ c_pc = "idle"
    /\ c_text = <<>>
    /\ c_result = None
    /\ c_ai = 0

\* classify(text) up to its return or to the await in _ai_classify.
Classify(text) ==
    /\ UNCHANGED NotClassifier
    /\ c_pc = "idle"
    /\ c_text' = text
    /\ LET h == ClassifyHeuristic(text)
       IN  IF h # None
           THEN /\ c_pc' = "done"
                /\ c_result' = h
                /\ c_ai' = c_ai
           ELSE /\ c_pc' = "ai"
                /\ c_result' = None
                /\ c_ai' = c_ai + 1

\* The AI call of _ai_classify returns or raises.
ClassifyAIReturn(outcome) ==
    /\ UNCHANGED NotClassifier
    /\ c_pc = "ai"
    /\ c_pc' = "done"
    /\ c_result' = AIClassifyResult(outcome)
    /\ UNCHANGED <<c_text, c_ai>>

NextClassify ==
    \/ \E text \in ClassifyTexts : Classify(text)
    \/ \E outcome \in IntentOutcomes : ClassifyAIReturn(outcome)

\* ------------------------------------------------------------ CoachingService

\* Most coaching calls made on one process.
MaxCalls == 6

\* Most chunks the AI streams for one reply.
MaxChunks == 2

\* get_history(limit=10)
HistoryLimit == 10

UserIds == {"u1"}

\* task_id: None (or empty, which `if task_id` treats alike); the calls
\* checked here carry no task.
NoTask == ""
TaskIds == {NoTask}

\* key = f"{user_id}:{task_id}" if task_id else user_id
ConversationKey(user_id, task_id) ==
    IF task_id # NoTask THEN <<user_id, task_id>> ELSE <<user_id>>

CoachingMessage(role, content) == [role |-> role, content |-> content]

\* The text of the n-th coaching message sent for a key, and the text (and
\* each streamed chunk) of the AI's reply to it.
UserText(n) == <<n>>
ReplyText(n) == <<n>>

\* The text of the j-th chunk the AI streams in reply to the n-th message.
ChunkText(n, j) == <<10 * n + j>>

\* CoachingService._get_fallback_response: a fixed text, no reply of the AI.
FallbackText == <<0>>

\* The messages of the conversation of `key`, empty while there is none.
MessagesOf(conversations, key) ==
    IF key \in DOMAIN conversations THEN conversations[key] ELSE <<>>

\* get_or_create_conversation(...).add_user_message(message)
AddUserMessage(conversations, key, message) ==
    (key :> Append(MessagesOf(conversations, key), CoachingMessage("user", message)))
        @@ conversations

\* conversation.add_assistant_message(content)
AddAssistantMessage(conversations, key, content) ==
    (key :> Append(MessagesOf(conversations, key), CoachingMessage("assistant", content)))
        @@ conversations

\* del self._conversations[key]
Without(f, key) == [k \in DOMAIN f \ {key} |-> f[k]]

\* Mutant: history is the oldest `limit` messages.
GetHistoryOldest(messages) ==
    IF Len(messages) > HistoryLimit THEN SubSeq(messages, 1, HistoryLimit) ELSE messages

\* CoachingConversation.get_history
GetHistory(messages) ==
    IF Len(messages) > HistoryLimit
    THEN SubSeq(messages, Len(messages) - HistoryLimit + 1, Len(messages))
    ELSE messages

\* No conversation, no remembered call.
NoConversations == [k \in {} |-> <<>>]

KInit ==
    /\ k_conversations = NoConversations
    /\ k_user_contexts = {}
    /\ k_pc = "idle"
    /\ k_call = None
    /\ k_out = <<>>
    /\ k_n = 0
    /\ k_prev = NoConversations
    /\ k_seen = NoConversations
    /\ k_cleared = {}

\* CoachingService.process (op "process") up to `await self.ai.complete`, and
\* CoachingService.stream (op "stream") up to the first step of
\* `async for chunk in self.ai.stream`: the user message is in the
\* conversation and the history is taken.
StartCall(op, user_id, task_id) ==
    /\ UNCHANGED NotCoaching
    /\ k_pc = "idle"
    /\ k_n < MaxCalls
    /\ LET key == ConversationKey(user_id, task_id)
           message == UserText(Len(MessagesOf(k_seen, key)) + 1)
           conversations == AddUserMessage(k_conversations, key, message)
       IN  /\ k_conversations' = conversations
           /\ k_call' = [op |-> op, key |-> key, message |-> message,
                         history |-> GetHistory(conversations[key]),
                         full_response |-> <<>>, chunks |-> 0,
                         after_clear |-> task_id = NoTask /\ user_id \in k_cleared]
           /\ k_seen' = (key :> Append(MessagesOf(k_seen, key), message)) @@ k_seen
    /\ k_pc' = op
    /\ k_out' = <<>>
    /\ k_n' = k_n + 1
    /\ k_cleared' = k_cleared \ {user_id}
    /\ UNCHANGED <<k_user_contexts, k_prev>>

\* Mutant: the exception of the AI call leaves process.
ProcessReturnPropagating(outcome) ==
    /\ UNCHANGED NotCoaching
    /\ k_pc = "process"
    /\ IF outcome = AIRaised
       THEN /\ k_pc' = "raised"
            /\ k_out' = <<>>
            /\ k_prev' = (k_call.key :> [message |-> k_call.message, answered |-> FALSE,
                                         reply |-> <<>>]) @@ k_prev
            /\ UNCHANGED k_conversations
       ELSE /\ k_pc' = "idle"
            /\ k_out' = <<ReplyText(k_call.message[1])>>
            /\ k_conversations' =
                   AddAssistantMessage(k_conversations, k_call.key,
                                       ReplyText(k_call.message[1]))
            /\ k_prev' = (k_call.key :> [message |-> k_call.message, answered |-> TRUE,
                                         reply |-> ReplyText(k_call.message[1])]) @@ k_prev
    /\ UNCHANGED <<k_user_contexts, k_call, k_n, k_seen, k_cleared>>

\* The AI call of process returns or raises: process returns the reply, now
\* in the conversation, or the fallback.
ProcessReturn(outcome) ==
    /\ UNCHANGED NotCoaching
    /\ k_pc = "process"
    /\ k_pc' = "idle"
    /\ IF outcome = AIRaised
       THEN /\ k_out' = <<FallbackText>>
            /\ k_prev' = (k_call.key :> [message |-> k_call.message, answered |-> FALSE,
                                         reply |-> <<>>]) @@ k_prev
            /\ UNCHANGED k_conversations
       ELSE /\ k_out' = <<ReplyText(k_call.message[1])>>
            /\ k_conversations' =
                   AddAssistantMessage(k_conversations, k_call.key, ReplyText(k_call.message[1]))
            /\ k_prev' = (k_call.key :> [message |-> k_call.message, answered |-> TRUE,
                                         reply |-> ReplyText(k_call.message[1])]) @@ k_prev
    /\ UNCHANGED <<k_user_contexts, k_call, k_n, k_seen, k_cleared>>

\* The AI streams one chunk, and only the newest chunk is kept as the reply.
StreamChunkLastOnly ==
    /\ UNCHANGED NotCoaching
    /\ k_pc = "stream"
    /\ k_call.chunks < MaxChunks
    /\ LET chunk == ChunkText(k_call.message[1], k_call.chunks + 1)
       IN  /\ k_call' = [k_call EXCEPT !.full_response = chunk, !.chunks = @ + 1]
           /\ k_out' = Append(k_out, chunk)
    /\ UNCHANGED <<k_conversations, k_user_contexts, k_pc, k_n, k_prev, k_seen,
                   k_cleared>>

\* The AI streams one chunk: it is added to full_response and yielded.
StreamChunk ==
    /\ UNCHANGED NotCoaching
    /\ k_pc = "stream"
    /\ k_call.chunks < MaxChunks
    /\ LET chunk == ChunkText(k_call.message[1], k_call.chunks + 1)
       IN  /\ k_call' = [k_call EXCEPT !.full_response = @ \o chunk, !.chunks = @ + 1]
           /\ k_out' = Append(k_out, chunk)
    /\ UNCHANGED <<k_conversations, k_user_contexts, k_pc, k_n, k_prev, k_seen,
                   k_cleared>>

\* The AI's stream ends: full_response goes into the conversation.
StreamEnd ==
    /\ UNCHANGED NotCoaching
    /\ k_pc = "stream"
    /\ k_pc' = "idle"
    /\ k_conversations' =
           AddAssistantMessage(k_conversations, k_call.key, k_call.full_response)
    /\ k_prev' = (k_call.key :> [message |-> k_call.message, answered |-> TRUE,
                                 reply |-> k_call.full_response]) @@ k_prev
    /\ UNCHANGED <<k_user_contexts, k_call, k_out, k_n, k_seen, k_cleared>>

\* The AI's stream raises and what had been received is kept as the reply.
StreamRaiseKeepingChunks ==
    /\ UNCHANGED NotCoaching
    /\ k_pc = "stream"
    /\ k_pc' = "idle"
    /\ k_out' = Append(k_out, FallbackText)
    /\ k_conversations' =
           AddAssistantMessage(k_conversations, k_call.key, k_call.full_response)
    /\ k_prev' = (k_call.key :> [message |-> k_call.message, answered |-> FALSE,
                                 reply |-> <<>>]) @@ k_prev
    /\ UNCHANGED <<k_user_contexts, k_call, k_n, k_seen, k_cleared>>

\* The AI's stream raises, at its start or after chunks: the fallback is
\* yielded and nothing goes into the conversation.
StreamRaise ==
    /\ UNCHANGED NotCoaching
    /\ k_pc = "stream"
    /\ k_pc' = "idle"
    /\ k_out' = Append(k_out, FallbackText)
    /\ k_prev' = (k_call.key :> [message |-> k_call.message, answered |-> FALSE,
                                 reply |-> <<>>]) @@ k_prev
    /\ UNCHANGED <<k_conversations, k_user_contexts, k_call, k_n, k_seen, k_cleared>>

\* CoachingService.clear_conversation
ClearConversation(user_id, task_id) ==
    /\ UNCHANGED NotCoaching
    /\ k_pc = "idle"
    /\ LET key == ConversationKey(user_id, task_id)
       IN  /\ key \in DOMAIN k_seen
           /\ k_conversations' = Without(k_conversations, key)
           /\ k_prev' = Without(k_prev, key)
           /\ k_seen' = Without(k_seen, key)
    /\ UNCHANGED <<k_user_contexts, k_pc, k_call, k_out, k_n, k_cleared>>

\* CommandHandler._handle_clear, reached by the /clear command: it answers
\* "Conversation cleared" after deleting the user's entry of _user_contexts.
HandleClear(user_id) ==
    /\ UNCHANGED NotCoaching
    /\ k_pc = "idle"
    /\ user_id \notin k_cleared
    /\ k_user_contexts' = k_user_contexts \ {user_id}
    /\ k_cleared' = k_cleared \cup {user_id}
    /\ UNCHANGED <<k_conversations, k_pc, k_call, k_out, k_n, k_prev, k_seen>>

\* get_intent_router(): the next request gets a new IntentRouter, with a new
\* CoachingService and a new CommandHandler.
GetIntentRouter ==
    /\ UNCHANGED NotCoaching
    /\ k_pc = "idle"
    /\ k_conversations # NoConversations
    /\ k_conversations' = NoConversations
    /\ k_user_contexts' = {}
    /\ k_prev' = NoConversations
    /\ k_cleared' = {}
    /\ UNCHANGED <<k_pc, k_call, k_out, k_n, k_seen>>

NextCoaching ==
    \/ \E op \in {"process", "stream"}, user_id \in UserIds, task_id \in TaskIds :
           StartCall(op, user_id, task_id)
    \/ \E outcome \in {"ok", AIRaised} : ProcessReturn(outcome)
    \/ StreamChunk
    \/ StreamEnd
    \/ StreamRaise
    \/ \E user_id \in UserIds, task_id \in TaskIds : ClearConversation(user_id, task_id)
    \/ \E user_id \in UserIds : HandleClear(user_id)
    \/ GetIntentRouter

\* ------------------------------------------------- POST /process/stream

\* request.force_intent is None.
NoForce == "none"

\* ProcessRequest.text has min_length=1.
StreamTexts == {text \in PipelineTexts : text # <<>>}

TInit ==
    /\ t_pc = "idle"
    /\ t_request = None
    /\ t_intent = None
    /\ t_events = <<>>
    /\ t_route = None
    /\ t_result = None

\* event_generator once the intent is known, up to its next await or yield.
\* Coaching: the `async for` over stream_coaching starts.  Otherwise
\* route_with_intent (intent forced) or route is awaited; the calls that end
\* without awaiting anything end here: the command handler, the orchestrator
\* on blank text, route on blank text, and route on a text whose leading "/"
\* makes its own classification COMMAND.  route classifies the text again:
\* the heuristic repeats its answer, and a text the heuristic leaves open
\* goes to the AI a second time.
StreamDispatch(text, force_intent, intent) ==
    LET yield_result(routed) ==
            /\ t_events' = Append(t_events, "result")
            /\ t_pc' = "complete"
            /\ t_route' = routed
            /\ t_result' = routed
        yield_error ==
            /\ t_events' = Append(t_events, "error")
            /\ t_pc' = "error"
            /\ UNCHANGED <<t_route, t_result>>
        await(pc, routed) ==
            /\ t_events' = t_events
            /\ t_pc' = pc
            /\ t_route' = routed
            /\ UNCHANGED t_result
    IN  /\ t_intent' = intent
        /\ IF intent = COACHING
           THEN t_events' = t_events /\ t_pc' = "coaching" /\ UNCHANGED <<t_route, t_result>>
           ELSE IF force_intent # NoForce
           THEN IF intent = COMMAND
                THEN IF CommandRaisesIndexError(text)
                     THEN yield_error
                     ELSE yield_result(COMMAND)
                ELSE IF IsBlank(text) THEN yield_result(intent) ELSE await("route", intent)
           ELSE IF IsBlank(text)
                THEN yield_result(EmptyMessageResponse.intent)
                ELSE IF StartsWithSlash(Strip(text))
                THEN yield_result(COMMAND)
                ELSE IF ClassifyHeuristic(text) # None
                THEN await("route", ClassifyHeuristic(text).intent)
                ELSE await("route_classify", None)

\* POST /process/stream: event_generator up to its first await or yield.
ProcessStream(text, force_intent) ==
    /\ UNCHANGED NotStream
    /\ t_pc = "idle"
    /\ t_request' = [text |-> text, force_intent |-> force_intent]
    /\ IF force_intent # NoForce
       THEN StreamDispatch(text, force_intent, force_intent)
       ELSE IF ClassifyHeuristic(text) # None
       THEN StreamDispatch(text, force_intent, ClassifyHeuristic(text).intent)
       ELSE /\ t_pc' = "classify"
            /\ UNCHANGED <<t_intent, t_events, t_route, t_result>>

\* The AI call of intent_router.classifier.classify returns or raises.
StreamClassifyReturn(outcome) ==
    /\ UNCHANGED NotStream
    /\ t_pc = "classify"
    /\ StreamDispatch(t_request.text, NoForce, AIClassifyResult(outcome).intent)
    /\ UNCHANGED t_request

\* The AI call of the classification inside route returns or raises, and
\* route dispatches on this second answer: the command handler answers at
\* once, capture and coaching await their AI call.
RouteClassifyReturn(outcome) ==
    /\ UNCHANGED NotStream
    /\ t_pc = "route_classify"
    /\ LET routed == AIClassifyResult(outcome).intent
       IN  /\ t_route' = routed
           /\ IF routed = COMMAND
              THEN /\ t_pc' = "complete"
                   /\ t_events' = Append(t_events, "result")
                   /\ t_result' = routed
              ELSE /\ t_pc' = "route"
                   /\ UNCHANGED <<t_events, t_result>>
    /\ UNCHANGED <<t_request, t_intent>>

\* stream_coaching yields a chunk of the reply, or after the chunks the
\* fallback text: one message event.
StreamMessage ==
    /\ UNCHANGED NotStream
    /\ t_pc = "coaching"
    /\ Len(t_events) <= MaxChunks
    /\ t_events' = Append(t_events, "message")
    /\ UNCHANGED <<t_pc, t_request, t_intent, t_route, t_result>>

\* stream_coaching ends; CoachingService.stream raises nothing.
StreamCoachingEnd ==
    /\ UNCHANGED NotStream
    /\ t_pc = "coaching"
    /\ t_pc' = "complete"
    /\ UNCHANGED <<t_request, t_intent, t_events, t_route, t_result>>

\* route / route_with_intent returns its RouterResponse: one result event.
RouteReturn ==
    /\ UNCHANGED NotStream
    /\ t_pc = "route"
    /\ t_pc' = "complete"
    /\ t_events' = Append(t_events, "result")
    /\ t_result' = t_route
    /\ UNCHANGED <<t_request, t_intent, t_route>>

\* Mutant: completion is signalled after the error event too.
RouteRaiseThenDone ==
    /\ UNCHANGED NotStream
    /\ t_pc = "route"
    /\ t_route = CAPTURE
    /\ t_pc' = "complete"
    /\ t_events' = Append(t_events, "error")
    /\ UNCHANGED <<t_request, t_intent, t_route, t_result>>

\* route / route_with_intent raises (an AI provider error in extraction; the
\* coaching handler raises nothing): `except Exception` yields one error
\* event and the generator ends.
RouteRaise ==
    /\ UNCHANGED NotStream
    /\ t_pc = "route"
    /\ t_route = CAPTURE
    /\ t_pc' = "error"
    /\ t_events' = Append(t_events, "error")
    /\ UNCHANGED <<t_request, t_intent, t_route, t_result>>

\* yield {"event": "done", ...}
SignalCompletion ==
    /\ UNCHANGED NotStream
    /\ t_pc = "complete"
    /\ t_pc' = "done"
    /\ t_events' = Append(t_events, "done")
    /\ UNCHANGED <<t_request, t_intent, t_route, t_result>>

NextStream ==
    \/ \E text \in StreamTexts, force_intent \in Intent \cup {NoForce} :
           ProcessStream(text, force_intent)
    \/ \E outcome \in IntentOutcomes : StreamClassifyReturn(outcome)
    \/ \E outcome \in IntentOutcomes : RouteClassifyReturn(outcome)
    \/ StreamMessage
    \/ StreamCoachingEnd
    \/ RouteReturn
    \/ RouteRaise
    \/ SignalCompletion

\* ------------------------------------- specification of score alone

\* Titles, estimates (5 <= minutes <= 480) and raw inputs score is called with.
ScoreTitles ==
    {<<"buy", " ", "milk">>, <<"plan", " ", "trip">>, <<"milk">>, <<"call">>,
     <<" ">>, <<>>}
ScoreMinutes == {15, 45, 300}
ScoreInputs ==
    {<<"buy", " ", "milk">>, <<"buy", " ", "stuff">>, <<"milk", "?">>,
     <<"stuff", "?">>, <<"call">>}

QInit ==
    /\ q_pc = "idle"
    /\ q_action = None
    /\ q_raw_input = <<>>
    /\ q_result = None
    /\ q_ai = 0

\* ConfidenceService.score up to its return, its raise, or the await of
\* _ai_score.
Score(action, raw_input) ==
    /\ UNCHANGED NotScore
    /\ q_pc = "idle"
    /\ q_action' = action
    /\ q_raw_input' = raw_input
    /\ IF ScoreRaisesIndexError(action)
       THEN q_pc' = "raised" /\ UNCHANGED <<q_result, q_ai>>
       ELSE IF Escalates(action, raw_input)
       THEN q_pc' = "ai" /\ q_ai' = q_ai + 1 /\ UNCHANGED q_result
       ELSE /\ q_pc' = "done"
            /\ q_result' = ScoreHeuristic(action, raw_input)
            /\ UNCHANGED q_ai

\* The AI call of _ai_score returns or raises.
ScoreAIReturn(outcome) ==
    /\ UNCHANGED NotScore
    /\ q_pc = "ai"
    /\ LET c == ConfidenceAfterAI(outcome, HeuristicAmbiguities(q_action, q_raw_input))
       IN  IF c = Raised
           THEN q_pc' = "raised" /\ UNCHANGED q_result
           ELSE q_pc' = "done" /\ q_result' = c
    /\ UNCHANGED <<q_action, q_raw_input, q_ai>>

NextScore ==
    \/ \E title \in ScoreTitles, minutes \in ScoreMinutes, raw_input \in ScoreInputs :
           Score(ExtractedAction(title, minutes, title), raw_input)
    \/ \E outcome \in ConfidenceOutcomes : ScoreAIReturn(outcome)

\* ------------------------------- CoachingService: overlapping calls of a key

\* The process calls; call c sends UserText(c) and the AI answers it with
\* ReplyText(c).
ProcessCalls == 1..MaxConcurrent

IdleCall ==
    [pc |-> "idle", conversation |-> 0, history |-> <<>>, answered |-> FALSE,
     during |-> {}, cleared |-> FALSE]

XInit ==
    /\ x_objects = <<>>
    /\ x_entry = 0
    /\ x_calls = [c \in ProcessCalls |-> IdleCall]

\* The process calls suspended on their AI call.
Suspended == {c \in ProcessCalls : x_calls[c].pc = "ai"}

\* The user message goes into the conversation when the reply does.
ProcessStartDeferringAppend(c) ==
    /\ UNCHANGED NotConcurrent
    /\ x_calls[c].pc = "idle"
    /\ LET created == x_entry = 0
           conversation == IF created THEN Len(x_objects) + 1 ELSE x_entry
           objects == IF created THEN Append(x_objects, <<>>) ELSE x_objects
       IN  /\ x_entry' = conversation
           /\ x_objects' = objects
           /\ x_calls' = [x_calls EXCEPT ![c] =
                  [pc |-> "ai", conversation |-> conversation,
                   history |-> GetHistory(Append(objects[conversation],
                                                 CoachingMessage("user", UserText(c)))),
                   answered |-> FALSE, during |-> Suspended, cleared |-> FALSE]]

\* CoachingService.process up to `await self.ai.complete`:
\* get_or_create_conversation returns the object of the key, creating and
\* inserting one if the map has none; the user message is appended to it and
\* the history is copied from it.
ProcessStart(c) ==
    /\ UNCHANGED NotConcurrent
    /\ x_calls[c].pc = "idle"
    /\ LET created == x_entry = 0
           conversation == IF created THEN Len(x_objects) + 1 ELSE x_entry
           objects == IF created THEN Append(x_objects, <<>>) ELSE x_objects
           messages == Append(objects[conversation], CoachingMessage("user", UserText(c)))
       IN  /\ x_entry' = conversation
           /\ x_objects' = [objects EXCEPT ![conversation] = messages]
           /\ x_calls' = [x_calls EXCEPT ![c] =
                  [pc |-> "ai", conversation |-> conversation,
                   history |-> GetHistory(messages),
                   answered |-> FALSE, during |-> Suspended, cleared |-> FALSE]]

\* The conversation is put back into the map when the reply is appended.
ProcessEndReinserting(c, outcome) ==
    /\ UNCHANGED NotConcurrent
    /\ x_calls[c].pc = "ai"
    /\ x_calls' = [x_calls EXCEPT ![c].pc = "done", ![c].answered = outcome = "ok"]
    /\ IF outcome = "ok"
       THEN /\ x_objects' = [x_objects EXCEPT ![x_calls[c].conversation] =
                                Append(@, CoachingMessage("assistant", ReplyText(c)))]
            /\ x_entry' = x_calls[c].conversation
       ELSE UNCHANGED <<x_objects, x_entry>>

\* The AI call of process call c returns or raises: the reply is appended to
\* the conversation object the call holds, or the fallback is returned.
ProcessEnd(c, outcome) ==
    /\ UNCHANGED NotConcurrent
    /\ x_calls[c].pc = "ai"
    /\ x_calls' = [x_calls EXCEPT ![c].pc = "done", ![c].answered = outcome = "ok"]
    /\ x_objects' = IF outcome = "ok"
                    THEN [x_objects EXCEPT ![x_calls[c].conversation] =
                             Append(@, CoachingMessage("assistant", ReplyText(c)))]
                    ELSE x_objects
    /\ UNCHANGED x_entry

\* CoachingService.clear_conversation for the key, between the steps of the
\* process calls: the entry of the map is deleted, the object stays with the
\* calls that hold it.
ClearDuringCalls ==
    /\ UNCHANGED NotConcurrent
    /\ x_entry # 0
    /\ x_entry' = 0
    /\ x_calls' = [c \in ProcessCalls |->
                      IF c \in Suspended THEN [x_calls[c] EXCEPT !.cleared = TRUE]
                      ELSE x_calls[c]]
    /\ UNCHANGED x_objects

NextConcurrent ==
    \/ \E c \in ProcessCalls : ProcessStart(c)
    \/ \E c \in ProcessCalls, outcome \in {"ok", AIRaised} : ProcessEnd(c, outcome)
    \/ ClearDuringCalls

\* ----------------------------------------------- ClaudeProvider.complete

\* What client.messages.create raises: RateLimitError, and the other
\* subclasses of APIError, of which APIConnectionError is the network
\* failure and BadRequestError a failure that no retry repairs.
RateLimitError == [kind |-> "RateLimitError"]
APIConnectionError == [kind |-> "APIConnectionError"]
BadRequestError == [kind |-> "BadRequestError"]

\* The failures a later attempt may not meet again.
TransientErrors == {RateLimitError, APIConnectionError}

\* raise last_error or APIError(message="Max retries exceeded"), after a
\* loop of no iterations.
MaxRetriesExceeded == [kind |-> "APIError"]

\* The outcomes of one API call: a response (that of attempt `attempt` is
\* returned as Ok(attempt)) or an error.
ApiResponse == [kind |-> "response"]
ApiOutcomes == {ApiResponse, RateLimitError, APIConnectionError, BadRequestError}

\* await asyncio.sleep(2 ** attempt)
Backoff(attempt) == 2 ^ attempt

AInit ==
    /\ a_pc = "idle"
    /\ a_max_retries = 0
    /\ a_attempt = 0
    /\ a_calls = 0
    /\ a_slept = <<>>
    /\ a_out = None
    /\ a_n = 0

\* complete on a provider built with max_retries, up to the await of the
\* first API call; with max_retries = 0 the loop is skipped and the raise
\* after it is reached.
Complete(max_retries) ==
    /\ UNCHANGED NotProvider
    /\ a_pc \in {"idle", "returned", "raised"}
    /\ a_n < MaxCompletes
    /\ a_n' = a_n + 1
    /\ a_max_retries' = max_retries
    /\ a_attempt' = 0
    /\ a_slept' = <<>>
    /\ IF max_retries = 0
       THEN a_pc' = "raised" /\ a_out' = MaxRetriesExceeded /\ a_calls' = 0
       ELSE a_pc' = "call" /\ a_out' = None /\ a_calls' = 1

\* The API call of the current attempt returns its response or raises:
\* complete returns the response, sleeps before the next attempt (a rate
\* limit with attempts left), or re-raises the error.
ApiReturn(outcome) ==
    /\ UNCHANGED NotProvider
    /\ a_pc = "call"
    /\ IF outcome = ApiResponse
       THEN a_pc' = "returned" /\ a_out' = Ok(a_attempt) /\ a_slept' = a_slept
       ELSE IF outcome = RateLimitError /\ a_attempt < a_max_retries - 1
       THEN /\ a_pc' = "sleep"
            /\ a_slept' = Append(a_slept, Backoff(a_attempt))
            /\ a_out' = a_out
       ELSE a_pc' = "raised" /\ a_out' = outcome /\ a_slept' = a_slept
    /\ UNCHANGED <<a_max_retries, a_attempt, a_calls, a_n>>

\* The sleep ends: `continue`, and the next attempt makes its API call.
BackoffEnd ==
    /\ UNCHANGED NotProvider
    /\ a_pc = "sleep"
    /\ a_pc' = "call"
    /\ a_attempt' = a_attempt + 1
    /\ a_calls' = a_calls + 1
    /\ UNCHANGED <<a_max_retries, a_slept, a_out, a_n>>

NextProvider ==
    \/ \E max_retries \in 0..MaxRetries : Complete(max_retries)
    \/ \E outcome \in ApiOutcomes : ApiReturn(outcome)
    \/ BackoffEnd

\* --------------------------------------------------------------- properties

\* The OrchestrationResult the call returned, None if it returned none.
Returned == IF response = None THEN None ELSE response.extraction

\* The call went through enrichment and extract has returned.
EnrichedReturned == o_pc = "returned" /\ tasks # <<>>

\* C1: whatever the order in which the enrichments end, and whichever of
\* them fail, extract does not raise and returns as many enriched actions as
\* were extracted, the i-th carrying the title, estimated_minutes and
\* raw_segment of the i-th extracted action.
C1_CountAndOrderPreserved ==
    /\ tasks # <<>> => o_pc \in {"enrich", "returned"}
    /\ EnrichedReturned =>
        LET extracted == extraction_result.actions
            enriched == Returned.actions
        IN  /\ Len(enriched) = Len(extracted)
            /\ \A i \in 1..Len(extracted) :
                /\ enriched[i].title = extracted[i].title
                /\ enriched[i].estimated_minutes = extracted[i].estimated_minutes
                /\ enriched[i].raw_segment = extracted[i].raw_segment

\* C1 witness: two actions whose enrichments ended in the reverse order, the
\* first one by failing, and extract has returned.
C1_Witness ==
    /\ EnrichedReturned
    /\ finished = <<2, 1>>
    /\ tasks[1].pc = "failed"
    /\ tasks[2].pc = "done"

\* C2: when enrichments fail, extract still returns a result for the whole
\* batch; each failed action is the minimal EnrichedAction (avoidance 1,
\* ATOMIC, no breakdown, confidence 0.5, ambiguities ["Enrichment failed"]),
\* and each other action is the enrichment made of the results of its own
\* avoidance, complexity and confidence calls.
C2_FailureIsolated ==
    EnrichedReturned =>
        /\ r_pc = "done"
        /\ \A i \in 1..Len(tasks) :
            LET action == extraction_result.actions[i]
                enriched == Returned.actions[i]
            IN  IF tasks[i].pc = "failed"
                THEN enriched =
                        EnrichedAction(action.title, action.estimated_minutes,
                                       action.raw_segment, 1, ATOMIC, FALSE, 500,
                                       {"Enrichment failed"})
                ELSE enriched =
                        EnrichedFrom(action, tasks[i].avoidance,
                                     tasks[i].complexity, tasks[i].confidence)

\* C2 witness: of two actions the first failed because its avoidance call
\* raised, and the second was enriched with an avoidance weight from the AI.
C2_Witness ==
    /\ EnrichedReturned
    /\ Len(tasks) = 2
    /\ tasks[1].avoidance = Raised
    /\ tasks[2].pc = "done"
    /\ Returned.actions[2].avoidance_weight = 4

\* C3: in every OrchestrationResult returned, an overall_confidence below
\* 0.7 comes with needs_validation.
C3_LowConfidenceNeedsValidation ==
    Returned # None =>
        (Returned.overall_confidence < 700 => Returned.needs_validation)

\* C3 witness: an enriched result whose mean, 0.695, was rounded down to 0.69.
C3_Witness ==
    /\ EnrichedReturned
    /\ Len(tasks) = 1
    /\ Returned.actions[1].confidence = 695
    /\ Returned.overall_confidence = 690

\* C4: in a result with at least one action, needs_validation is true exactly
\* when the returned overall_confidence is below 0.7 or some action has an
\* ambiguity.
C4_NeedsValidationExactly ==
    (Returned # None /\ Returned.actions # <<>>) =>
        (Returned.needs_validation <=>
            \/ Returned.overall_confidence < 700
            \/ \E i \in 1..Len(Returned.actions) :
                   Returned.actions[i].ambiguities # {})

\* C4 witness: two actions without ambiguities, overall_confidence at least
\* 0.7, and needs_validation false.
C4_Witness ==
    /\ Returned # None
    /\ Len(Returned.actions) = 2
    /\ \A i \in 1..2 : Returned.actions[i].ambiguities = {}
    /\ Returned.overall_confidence >= 700
    /\ ~Returned.needs_validation

\* Payloads of a RouterResponse that are populated.
Populated(resp) ==
    {f \in {"extraction", "coaching_response", "command_response"} : resp[f] # None}

\* The payload field an intent names.
PayloadOf(intent) ==
    CASE intent = CAPTURE -> "extraction"
      [] intent = COACHING -> "coaching_response"
      [] intent = COMMAND -> "command_response"

\* The handler an intent names.
HandlerOf(intent) ==
    CASE intent = CAPTURE -> "orchestrator"
      [] intent = COACHING -> "coaching"
      [] intent = COMMAND -> "command"

HandlerCalls == calls.orchestrator + calls.coaching + calls.command

\* route() was called with empty or whitespace-only text.
ShortCircuited ==
    /\ request # None
    /\ request.entry = "route"
    /\ \A k \in 1..Len(request.text) : IsSpace(request.text[k])

\* C5: a call invokes at most one handler, at most once; a RouterResponse has
\* exactly one payload populated, intent and response_type name it, and
\* unless route() answered empty text itself it comes from the one
\* invocation of the handler of that intent.
C5_OnePayloadOneHandler ==
    /\ HandlerCalls <= 1
    /\ response # None =>
        /\ Populated(response) = {PayloadOf(response.intent)}
        /\ response.response_type = response.intent
        /\ ~ShortCircuited => calls[HandlerOf(response.intent)] = 1

\* C5 witness: route_with_intent answered a coaching request.
C5_Witness ==
    /\ response # None
    /\ request.entry = "route_with_intent"
    /\ response.intent = COACHING
    /\ calls.coaching = 1

\* C6: route() on empty or whitespace-only text returns a CAPTURE response
\* with zero actions and needs_validation, and invokes neither the
\* classifier, nor a handler, nor the AI.
C6_EmptyTextShortCircuit ==
    ShortCircuited =>
        /\ r_pc = "done"
        /\ response # None
        /\ response.intent = CAPTURE
        /\ response.response_type = "capture"
        /\ Returned # None
        /\ Returned.actions = <<>>
        /\ Returned.needs_validation
        /\ calls = NoCalls

\* C6 witness: route() has answered a text of one whitespace symbol.
C6_Witness ==
    /\ ShortCircuited
    /\ request.text = <<" ">>
    /\ r_pc = "done"

\* C7: classify applies its rules in strict precedence: a leading "/" gives
\* COMMAND 1.0; else a first token in the action verbs gives CAPTURE 0.95;
\* else a capture prefix gives CAPTURE 0.98; else a coaching phrase gives
\* COACHING 0.90; each of these without an AI call, and the AI is called
\* exactly when none of the four matches.
C7_ClassifyPrecedence ==
    c_pc # "idle" =>
        LET stripped == Strip(c_text)
            lowered == LowerText(stripped)
            first == FirstWord(lowered)
            command == stripped # <<>> /\ Head(stripped) \in SlashSymbols
            verb == Len(first) = 1 /\ first[1] \in _ACTION_STARTERS
            prefix == \E p \in CapturePrefixes :
                          Len(lowered) >= Len(p) /\ \A k \in 1..Len(p) : lowered[k] = p[k]
            coaching == \E sig \in _COACHING_SIGNALS : \E k \in 0..Len(lowered) :
                            /\ k + Len(sig) <= Len(lowered)
                            /\ \A j \in 1..Len(sig) : lowered[k + j] = sig[j]
            heuristic(intent, confidence) ==
                /\ c_pc = "done"
                /\ c_ai = 0
                /\ c_result = [intent |-> intent, confidence |-> confidence]
        IN  IF command THEN heuristic(COMMAND, 1000)
            ELSE IF verb THEN heuristic(CAPTURE, 950)
            ELSE IF prefix THEN heuristic(CAPTURE, 980)
            ELSE IF coaching THEN heuristic(COACHING, 900)
            ELSE c_ai = 1

\* C7 witness: a text that starts with an action verb and contains a coaching
\* phrase was classified CAPTURE without an AI call.
C7_Witness ==
    /\ c_pc = "done"
    /\ c_text = <<"buy", " ", "stuck">>
    /\ c_result = IntentResult(CAPTURE, 950)
    /\ c_ai = 0

\* The AI reply is no Intent name, or the AI call raised.
Unrecognized(outcome) ==
    outcome = AIRaised \/ UpperStripped(outcome) \notin {"CAPTURE", "COACHING", "COMMAND"}

\* C8 (as claimed): when the AI reply of the classifier is no Intent name, or
\* the call raises, the request gets intent CAPTURE with confidence 0.5 and
\* goes to the orchestrator.
C8_UnrecognizedIsCaptureHalf ==
    [][\A outcome \in IntentOutcomes :
          (Unrecognized(outcome) /\ ClassifyReturn(outcome)) =>
              /\ intent_result' = IntentResult(CAPTURE, 500)
              /\ calls'.orchestrator = 1]_vars

\* C9 (as claimed): ExtractionService.extract never raises; whenever its AI
\* call failed it returned zero actions with confidence 0.0, and the router
\* answers with an empty result that needs validation.
C9_ExtractionNeverRaises ==
    /\ e_pc # "raised"
    /\ r_pc # "raised" \/ calls.orchestrator = 0
    /\ (e_pc = "returned" /\ extraction_result.ambiguities # {}) =>
        /\ extraction_result.actions = <<>>
        /\ extraction_result.confidence = 0
        /\ Returned # None /\ Returned.actions = <<>> /\ Returned.needs_validation

\* A ComplexityAnalysis or EnrichedAction.
BreakdownConsistent(x) == x.complexity # ATOMIC => x.needs_breakdown

\* C10: every ComplexityAnalysis classify returned (fast path, AI result,
\* failure default) and every EnrichedAction of a returned result has
\* needs_breakdown whenever its complexity is not ATOMIC.
C10_NonAtomicNeedsBreakdown ==
    /\ \A i \in 1..Len(tasks) :
           tasks[i].complexity \notin {Running, Raised, Finished} =>
               BreakdownConsistent(tasks[i].complexity)
    /\ (Returned # None) =>
           \A i \in 1..Len(Returned.actions) : BreakdownConsistent(Returned.actions[i])

\* C10 witness: the 45-minute action, whose failure default is ATOMIC, was
\* classified COMPOSITE by the AI and returned with needs_breakdown.
C10_Witness ==
    /\ EnrichedReturned
    /\ \E i \in 1..Len(tasks) :
        /\ extraction_result.actions[i].estimated_minutes = 45
        /\ Returned.actions[i].complexity = COMPOSITE
        /\ Returned.actions[i].needs_breakdown

\* C13 (as claimed): CommandHandler.process never raises: once the command
\* handler was invoked the router has returned a command response, and a
\* first token outside /start, /help, /clear, /status is echoed in the
\* "Unknown command" message.
C13_CommandNeverRaises ==
    calls.command = 1 =>
        /\ r_pc = "done"
        /\ response # None
        /\ response.command_response # None
        /\ LET token == LowerText(FirstWord(Strip(request.text)))
           IN  token \notin KnownCommands =>
                   response.command_response =
                       CommandResponse(token, <<"Unknown command: ">> \o token)

\* C14 (as claimed): route_with_intent handed empty or whitespace-only text
\* returns, for any intent, a CAPTURE response with zero actions and
\* needs_validation, and invokes neither the classifier, nor a handler, nor
\* the AI.
C14_PreclassifiedEmptyShortCircuit ==
    (/\ request # None
     /\ request.entry = "route_with_intent"
     /\ \A k \in 1..Len(request.text) : IsSpace(request.text[k])) =>
        /\ r_pc = "done"
        /\ response # None
        /\ response.intent = CAPTURE
        /\ Returned # None
        /\ Returned.actions = <<>>
        /\ Returned.needs_validation
        /\ calls = NoCalls

\* C18: when its AI call fails with a ValueError, AvoidanceService.detect
\* returns weight 1 and ComplexityService.classify returns COMPOSITE with
\* needs_breakdown above 60 estimated minutes and ATOMIC without it
\* otherwise; neither raises, so the enrichment task does not fail.
C18_ValueErrorDefaults ==
    [][\A i \in 1..MaxActions :
          /\ (i \in 1..Len(tasks) /\ tasks[i].pc = "gather"
                /\ AvoidanceReturn(i, ValueError)) =>
                 /\ tasks'[i].avoidance = [weight |-> 1]
                 /\ tasks'[i].pc # "failed"
          /\ (i \in 1..Len(tasks) /\ tasks[i].pc = "gather"
                /\ ComplexityReturn(i, ValueError)) =>
                 /\ tasks'[i].complexity =
                        IF extraction_result.actions[i].estimated_minutes > 60
                        THEN [complexity |-> COMPOSITE, needs_breakdown |-> TRUE]
                        ELSE [complexity |-> ATOMIC, needs_breakdown |-> FALSE]
                 /\ tasks'[i].pc # "failed"]_vars

\* C18 witness: extract returned a 45-minute and a 300-minute action whose
\* enrichments did not fail, both with the avoidance weight of the failure
\* default, the first ATOMIC and the second COMPOSITE with needs_breakdown.
C18_Witness ==
    /\ EnrichedReturned
    /\ Len(Returned.actions) = 2
    /\ Returned.actions[1].estimated_minutes = 45
    /\ Returned.actions[1].avoidance_weight = 1
    /\ Returned.actions[1].complexity = ATOMIC
    /\ ~Returned.actions[1].needs_breakdown
    /\ "Enrichment failed" \notin Returned.actions[1].ambiguities
    /\ Returned.actions[2].estimated_minutes = 300
    /\ Returned.actions[2].avoidance_weight = 1
    /\ Returned.actions[2].complexity = COMPOSITE
    /\ Returned.actions[2].needs_breakdown

\* The messages of the conversation the call in progress works on.
CallMessages == MessagesOf(k_conversations, k_call.key)

\* Sequence h has x at some position, immediately followed by y.
Adjacent(h, x, y) == \E j \in 1..(Len(h) - 1) : h[j] = x /\ h[j + 1] = y

\* C11: while process awaits the AI, the conversation ends with its user
\* message and the history handed to the AI is the last min(10, length)
\* messages of the conversation, so it ends with that message too; and while
\* the conversation is within the cap, the history has the user message of
\* the previous call on the key immediately followed by the reply the AI
\* returned to that call.
C11_HistoryIsRecentConversation ==
    k_pc = "process" =>
        LET h == k_call.history
            n == Len(CallMessages)
        IN  /\ Len(h) = Min(HistoryLimit, n)
            /\ \A j \in 1..Len(h) : h[j] = CallMessages[n - Len(h) + j]
            /\ h[Len(h)] = CoachingMessage("user", k_call.message)
            /\ (/\ k_call.key \in DOMAIN k_prev
                /\ k_prev[k_call.key].answered
                /\ n <= HistoryLimit) =>
                   Adjacent(h, CoachingMessage("user", k_prev[k_call.key].message),
                            CoachingMessage("assistant", k_prev[k_call.key].reply))

\* C11 witness: process awaits the AI on a conversation longer than the cap
\* whose previous call was answered.
C11_Witness ==
    /\ k_pc = "process"
    /\ Len(CallMessages) > HistoryLimit
    /\ k_call.key \in DOMAIN k_prev
    /\ k_prev[k_call.key].answered

\* The last coaching call has ended and its AI call had failed.
LastCallFailed ==
    /\ k_pc = "idle"
    /\ k_call # None
    /\ k_call.key \in DOMAIN k_prev
    /\ k_prev[k_call.key].message = k_call.message
    /\ ~k_prev[k_call.key].answered

\* C12: no coaching call raises to its caller; when its AI call failed,
\* process has returned the fallback text and stream has yielded it last.
C12_FallbackOnAIFailure ==
    /\ k_pc # "raised"
    /\ LastCallFailed =>
        /\ k_out # <<>>
        /\ k_out[Len(k_out)] = FallbackText
        /\ k_call.op = "process" => k_out = <<FallbackText>>

\* C12 witness: process has returned the fallback text after its AI call
\* failed.
C12_Witness ==
    /\ LastCallFailed
    /\ k_call.op = "process"
    /\ k_out = <<FallbackText>>

\* C15 (as claimed): a coaching message is answered against the history the
\* earlier messages for its key have accumulated since the process started
\* or the conversation was cleared: every earlier user message of the key
\* that the cap leaves room for is in the history handed to the AI.
C15_HistoryKeptForProcessLifetime ==
    k_pc \in {"process", "stream"} =>
        LET seen == k_seen[k_call.key]
        IN  \A j \in 1..Len(seen) :
                2 * (Len(seen) - j) < HistoryLimit =>
                    \E i \in 1..Len(k_call.history) :
                        k_call.history[i] = CoachingMessage("user", seen[j])

\* C17 (as claimed): the first coaching message of a user after an answered
\* /clear is handed to the AI with a history of that message alone.
C17_ClearEmptiesHistory ==
    (k_pc \in {"process", "stream"} /\ k_call.after_clear) =>
        k_call.history = <<CoachingMessage("user", k_call.message)>>

\* Number of events of t_events named `name`.
Count(name) == Cardinality({i \in 1..Len(t_events) : t_events[i] = name})

\* The events before the last one.
Front(events) == SubSeq(events, 1, Len(events) - 1)

\* C16: the events of a stream are message events only, or one result event
\* only, until one done or one error event ends them; done and error never
\* both occur, nothing follows either, result follows no message, and a
\* finished stream is message* done, result done, or ends in one error.
C16_EventShapes ==
    /\ Count("done") + Count("error") <= 1
    /\ \A i \in 1..Len(t_events) : t_events[i] \in {"done", "error"} => i = Len(t_events)
    /\ Count("message") = 0 \/ Count("result") = 0
    /\ Count("result") <= 1
    /\ t_pc = "done" =>
        /\ t_events # <<>>
        /\ t_events[Len(t_events)] = "done"
        /\ \/ \A i \in 1..Len(Front(t_events)) : t_events[i] = "message"
           \/ Front(t_events) = <<"result">>
    /\ t_pc = "error" => (t_events # <<>> /\ t_events[Len(t_events)] = "error")
    /\ (Count("done") = 1) = (t_pc = "done")
    /\ (Count("error") = 1) = (t_pc = "error")

\* C16 witness: a coaching stream of two message events has ended with done.
C16_Witness ==
    /\ t_pc = "done"
    /\ t_events = <<"message", "message", "done">>

\* C19 (as claimed): whenever the raw input contains a vague pattern, score
\* returns without an AI call, with confidence at most 0.5 and "Input
\* contains vague language" among the ambiguities.
C19_VagueShortCircuits ==
    (q_pc # "idle" /\ has_vague_pattern(q_raw_input)) =>
        /\ q_pc = "done"
        /\ q_ai = 0
        /\ q_result.confidence <= 500
        /\ "Input contains vague language" \in q_result.ambiguities

\* The score the claim describes, in thousandths.
ClaimedScore ==
    LET verb == LET w == FirstWord(LowerText(q_action.title))
                IN  w # <<>> /\ w[1] \in _STRONG_ACTION_VERBS
        sum == 800 + (IF verb THEN 100 ELSE 0)
                   - (IF has_vague_pattern(q_raw_input) THEN 300 ELSE 0)
                   - (IF StrLen(q_action.title) < 5 THEN 100 ELSE 0)
                   - (IF "?" \in Range(q_raw_input) THEN 150 ELSE 0)
                   - (IF q_action.estimated_minutes < 5 \/ q_action.estimated_minutes > 240
                      THEN 100 ELSE 0)
    IN  IF sum < 0 THEN 0 ELSE IF sum > 1000 THEN 1000 ELSE sum

\* C20 (as claimed): score calls the AI exactly when the clamped heuristic
\* score is below 0.6 and no vague pattern was found; in every other case it
\* returns that score with the heuristic ambiguities and makes no AI call.
C20_EscalatesExactlyWhenLow ==
    q_pc # "idle" =>
        IF ClaimedScore < 600 /\ ~has_vague_pattern(q_raw_input)
        THEN q_ai = 1
        ELSE /\ q_ai = 0
             /\ q_pc = "done"
             /\ q_result = ConfidenceAnalysis(ClaimedScore,
                               HeuristicAmbiguities(q_action, q_raw_input))

\* C21 (as claimed): when the AI pass of score fails with a ValueError, score
\* returns without raising and the confidence it returns is the heuristic
\* score computed before the escalation.
C21_ValueErrorKeepsHeuristicScore ==
    [][ScoreAIReturn(ValueError) =>
           /\ q_pc' = "done"
           /\ q_result'.confidence = HeuristicConfidence(q_action, q_raw_input)]_vars

\* A service call that has been started and has returned a result.
Completed(x) == x \notin {None, Running, Raised}

\* C22: in the enrichment of one action the avoidance and the complexity call
\* are both started before either has been awaited to completion, and the
\* confidence call is started only once both have returned a result, so never
\* for an action whose avoidance or complexity call raised.
C22_GatherThenConfidence ==
    \A i \in 1..Len(tasks) :
        /\ tasks[i].avoidance # None
        /\ tasks[i].complexity # None
        /\ tasks[i].confidence # None =>
               Completed(tasks[i].avoidance) /\ Completed(tasks[i].complexity)

\* The confidence call of the second action is in flight while the first
\* action still waits for both of its gathered calls: enrichments of
\* different actions are not ordered with respect to each other.
C22_Witness ==
    /\ Len(tasks) = 2
    /\ tasks[2].confidence = Running
    /\ tasks[1].pc = "gather"
    /\ tasks[1].avoidance = Running
    /\ tasks[1].complexity = Running

\* C27 (as claimed): when extract returns, no AI call started on its behalf
\* is still in flight.
C27_NoCallInFlightAtReturn ==
    o_pc = "returned" => TotalInFlight(tasks) = 0

\* C26: if every AI call eventually returns or raises, every extract call
\* eventually completes, by returning or by raising.
C26_ExtractCompletes ==
    (o_pc \in {"extract", "enrich"}) ~> (o_pc \in {"returned", "raised"})

\* extract has returned two actions of which the second ended first and one
\* failed: calls failed and finished out of order.
C26_Witness ==
    /\ o_pc = "returned"
    /\ Len(tasks) = 2
    /\ finished = <<2, 1>>
    /\ \E i \in 1..2 : tasks[i].pc = "failed" /\ tasks[3 - i].pc = "done"

\* The concatenation, in order, of a sequence of texts.
RECURSIVE Concatenation(_)
Concatenation(texts) ==
    IF texts = <<>> THEN <<>> ELSE Head(texts) \o Concatenation(Tail(texts))

\* C23: while stream receives chunks the conversation is left alone, and when
\* the AI's stream ends without error exactly one message is appended to the
\* conversation: an assistant message whose content is the concatenation, in
\* order, of the chunks the call yielded.
C23_StreamRecordsConcatenation ==
    [][k_pc = "stream" =>
          IF k_pc' = "idle" /\ k_out' = k_out
          THEN k_conversations' =
                   (k_call.key :> Append(k_conversations[k_call.key],
                                         CoachingMessage("assistant", Concatenation(k_out))))
                       @@ k_conversations
          ELSE k_conversations' = k_conversations]_vars

\* C23 witness: a stream of two chunks has ended and its reply of two chunks
\* is the last message of the conversation.
C23_Witness ==
    /\ k_pc = "idle"
    /\ k_call # None
    /\ k_call.op = "stream"
    /\ Len(k_out) = 2
    /\ k_out[1] # k_out[2]
    /\ FallbackText \notin Range(k_out)
    /\ CallMessages # <<>>
    /\ CallMessages[Len(CallMessages)] = CoachingMessage("assistant", k_out[1] \o k_out[2])

\* The call in progress follows a call on its key whose AI call failed.
PreviousCallFailed ==
    /\ k_pc \in {"process", "stream"}
    /\ k_call.key \in DOMAIN k_prev
    /\ ~k_prev[k_call.key].answered

\* C29: a process or stream call whose AI call fails adds exactly one message
\* to the conversation, the user's: the call's start appends the user message
\* alone, its failing end (the fallback is returned or yielded) leaves the
\* conversation as it is, ending with that user message; so the history of
\* the next call on the key has the two user messages next to each other.
C29_FailedCallKeepsUserMessageOnly ==
    [][/\ (k_pc = "idle" /\ k_pc' \in {"process", "stream"}) =>
              k_conversations' =
                  (k_call'.key :> Append(MessagesOf(k_conversations, k_call'.key),
                                         CoachingMessage("user", k_call'.message)))
                      @@ k_conversations
       /\ (/\ k_pc \in {"process", "stream"}
           /\ k_pc' = "idle"
           /\ k_out' # <<>>
           /\ k_out'[Len(k_out')] = FallbackText) =>
              /\ k_conversations' = k_conversations
              /\ CallMessages[Len(CallMessages)] = CoachingMessage("user", k_call.message)
       /\ PreviousCallFailed =>
              Adjacent(k_call.history,
                       CoachingMessage("user", k_prev[k_call.key].message),
                       CoachingMessage("user", k_call.message))]_vars

\* C29 witness: the AI call of a coaching call has failed, and the next call
\* on the key awaits the AI with the two user messages at the end of its
\* history, after earlier messages.
C29_Witness ==
    /\ PreviousCallFailed
    /\ Len(k_out) = 0
    /\ Len(k_call.history) >= 3
    /\ k_call.history[Len(k_call.history) - 1].role = "user"
    /\ k_call.history[Len(k_call.history)].role = "user"

\* C28 (as claimed): without force_intent the one classification made by
\* event_generator decides what is returned as well, so the RouterResponse of
\* a result event never has intent COACHING.
C28_ResultNeverCoaching ==
    (t_request # None /\ t_request.force_intent = NoForce /\ "result" \in Range(t_events)) =>
        t_result # COACHING

\* C24 (as claimed): complete makes at most max_retries API calls; a
\* transient failure (rate limit, network) is raised to the caller only when
\* the attempts are exhausted; and a response is returned as the response of
\* the attempt that received it, which is the last attempt made.
C24_RetriesTransientFailures ==
    /\ a_calls <= a_max_retries
    /\ (a_pc = "raised" /\ a_out \in TransientErrors) => a_calls = a_max_retries
    /\ a_pc = "returned" => (a_out = Ok(a_attempt) /\ a_calls = a_attempt + 1)

\* The position of message m in a conversation that holds it once.
PositionOf(messages, m) == CHOOSE j \in 1..Len(messages) : messages[j] = m

\* C25: when a process call starts on the conversation object of a call for
\* the same key that is still suspended on its AI call, the user message of
\* the first call is in the history sent for the second without its reply,
\* and the second user message sits in the conversation between the first
\* user message and, once it arrives, the first call's reply.
C25_OverlappingCallsInterleave ==
    \A c, d \in ProcessCalls :
        (c \in x_calls[d].during /\ x_calls[c].conversation = x_calls[d].conversation) =>
            LET messages == x_objects[x_calls[d].conversation]
                first_user == CoachingMessage("user", UserText(c))
                second_user == CoachingMessage("user", UserText(d))
                first_reply == CoachingMessage("assistant", ReplyText(c))
            IN  /\ first_user \in Range(x_calls[d].history)
                /\ first_reply \notin Range(x_calls[d].history)
                /\ first_user \in Range(messages) /\ second_user \in Range(messages)
                /\ PositionOf(messages, first_user) < PositionOf(messages, second_user)
                /\ x_calls[c].answered =>
                       PositionOf(messages, second_user) < PositionOf(messages, first_reply)

\* C25 witness: two overlapping calls have both been answered and the
\* conversation is user, user, assistant, assistant.
C25_Witness ==
    \E c, d \in ProcessCalls :
        /\ c \in x_calls[d].during
        /\ x_calls[c].pc = "done" /\ x_calls[c].answered
        /\ x_calls[d].pc = "done" /\ x_calls[d].answered
        /\ x_calls[c].conversation = x_calls[d].conversation
        /\ x_calls[d].history = <<CoachingMessage("user", UserText(c)),
                                  CoachingMessage("user", UserText(d))>>
        /\ x_objects[x_calls[d].conversation] =
               <<CoachingMessage("user", UserText(c)), CoachingMessage("user", UserText(d)),
                 CoachingMessage("assistant", ReplyText(c)),
                 CoachingMessage("assistant", ReplyText(d))>>

\* C30: clear_conversation during a suspended process call wins.  The call
\* holds an object the map no longer has; its end appends the reply to that
\* object and leaves the map as it is, so the key has no entry until the next
\* process call for it starts, and that call starts a new conversation whose
\* history is its own message alone.
C30_ClearWinsOverSuspendedCall ==
    [][\A c \in ProcessCalls :
          /\ x_calls[c].cleared => x_calls[c].conversation # x_entry
          /\ (x_calls[c].cleared /\ x_calls[c].pc = "ai" /\ x_calls'[c].pc = "done") =>
                 /\ x_entry' = x_entry
                 /\ x_calls'[c].answered =>
                        x_objects'[x_calls[c].conversation] =
                            Append(x_objects[x_calls[c].conversation],
                                   CoachingMessage("assistant", ReplyText(c)))
          /\ (x_entry = 0 /\ x_calls[c].pc = "idle" /\ x_calls'[c].pc = "ai") =>
                 /\ x_calls'[c].history = <<CoachingMessage("user", UserText(c))>>
                 /\ x_objects'[x_entry'] = x_calls'[c].history]_vars

\* C30 witness: a call was cleared while suspended and has been answered,
\* the map has no entry for the key, and the reply is the last message of the
\* object the call held.
C30_Witness ==
    \E c \in ProcessCalls :
        /\ x_calls[c].cleared
        /\ x_calls[c].pc = "done"
        /\ x_calls[c].answered
        /\ x_entry = 0
        /\ x_objects[x_calls[c].conversation] =
               <<CoachingMessage("user", UserText(c)),
                 CoachingMessage("assistant", ReplyText(c))>>

\* ------------------------------------------------------------ specifications


Init == PInit /\ CInit /\ KInit /\ TInit /\ QInit /\ AInit /\ XInit

\* One request through the router, the orchestrator and the services.
Spec == Init /\ [][Next]_vars

\* While extract has calls in flight, one of them eventually ends.  This is
\* weaker than each call ending, so what holds under it holds when every AI
\* call eventually returns or raises.
AICallsEnd == WF_vars(ExtractProgress)

\* One pre-classified CAPTURE request, so one extract call on each text, when
\* no AI call of extract is left unanswered.
SpecFair == Init /\ [][NextExtract]_vars /\ AICallsEnd

\* IntentClassifier.classify on every text of up to MaxTextLen symbols.
SpecClassify == Init /\ [][NextClassify]_vars

\* Coaching calls made one after another on one process, with /clear commands
\* and later requests between them.
SpecCoaching == Init /\ [][NextCoaching]_vars

\* One POST /process/stream request.
SpecStream == Init /\ [][NextStream]_vars

\* ConfidenceService.score on every action and raw input of the sets above.
SpecScore == Init /\ [][NextScore]_vars

\* Overlapping process calls and clear_conversation calls for one key.
SpecConcurrent == Init /\ [][NextConcurrent]_vars

\* ClaudeProvider.complete calls, one after another, on one provider.
SpecProvider == Init /\ [][NextProvider]_vars

====
